---------------------------- MODULE Spec2Model ----------------------------
(***************************************************************************)
(* A model of the manifest-resolution pipeline of service-tooling:         *)
(* the project configuration loader (getProjectConfig), the URL templater  *)
(* (replaceUrlParams), the two provider URL resolvers (getProviderUrl of   *)
(* utils/manifest.ts and of utils/getProviderUrl.ts), the runtime version  *)
(* resolver (resolveRuntimeVersion, mapRuntimeVersion, installRuntime) and *)
(* withTimeout.                                                            *)
(*                                                                         *)
(* A JavaScript string is a sequence of symbols.  A symbol is one          *)
(* punctuation character (: / ? . - = and the closing brace), one decimal   *)
(* digit, the two-character template marker "${", or an opaque run of      *)
(* letters (a word).  The code searches strings only for punctuation,      *)
(* digits and the marker, and compares words only as wholes, so a word     *)
(* is never split.                                                         *)
(***************************************************************************)
EXTENDS Integers, Sequences, FiniteSets, TLC

\* ------------------------------------------------------------------------
\* Bounds of the model

\* getProviderUrl calls made in one behaviour
MaxCalls == 2
\* edits of the files on disk made in one behaviour
MaxEdits == 1
\* getProjectConfig calls made in one behaviour
MaxLoads == 2
\* resolveRuntimeVersion calls made, and possibly in flight together, in one
\* behaviour
MaxResolves == 2
\* mapRuntimeVersion calls made in one behaviour
MaxMaps == 2
\* withTimeout calls made in one behaviour
MaxTimeouts == 2
\* getManifest calls, and requests handled, in one behaviour
MaxManifests == 2
\* replaceUrlParams calls made in one behaviour
MaxUrlCalls == 2
\* calls of installRuntime and isRuntimeInstalled
MaxInstalls == 2

\* ------------------------------------------------------------------------
\* Strings

Digits == {"0", "1", "2", "3", "4", "5", "6", "7", "8", "9"}

IsDigit(c) == c \in Digits

SetMin(S) == CHOOSE x \in S : \A y \in S : x <= y

\* String.prototype.indexOf: the 0-based place of the first occurrence, or -1
indexOf(s, pat) ==
    LET P == {i \in 0..(Len(s) - Len(pat)) : \A j \in 1..Len(pat) : s[i + j] = pat[j]}
    IN  IF P = {} THEN -1 ELSE SetMin(P)

\* String.prototype.substr(start), start a 0-based index within the string
substr(s, start) == SubSeq(s, start + 1, Len(s))

\* /\d+\.\d+\.\d+/.test(s): the pattern is not anchored
semverTest(s) ==
    \E i \in 1..Len(s), j \in 1..Len(s) :
        /\ i + 2 <= j
        /\ j + 2 <= Len(s)
        /\ IsDigit(s[i])
        /\ s[i + 1] = "."
        /\ \A k \in (i + 2)..j : IsDigit(s[k])
        /\ s[j + 1] = "."
        /\ IsDigit(s[j + 2])

\* String.prototype.replace(/\/$/, ''): one trailing slash is removed
stripTrailingSlash(s) ==
    IF Len(s) > 0 /\ s[Len(s)] = "/" THEN SubSeq(s, 1, Len(s) - 1) ELSE s

DigitChar(d) ==
    CASE d = 0 -> "0" [] d = 1 -> "1" [] d = 2 -> "2" [] d = 3 -> "3" [] d = 4 -> "4"
      [] d = 5 -> "5" [] d = 6 -> "6" [] d = 7 -> "7" [] d = 8 -> "8" [] d = 9 -> "9"

DigitValue(c) ==
    CASE c = "0" -> 0 [] c = "1" -> 1 [] c = "2" -> 2 [] c = "3" -> 3 [] c = "4" -> 4
      [] c = "5" -> 5 [] c = "6" -> 6 [] c = "7" -> 7 [] c = "8" -> 8 [] c = "9" -> 9

\* Number.prototype.toString of a non-negative integer
RECURSIVE NumToString(_)
NumToString(n) ==
    IF n < 10 THEN <<DigitChar(n)>>
    ELSE Append(NumToString(n \div 10), DigitChar(n % 10))

\* the length of the run of digits a string starts with
RECURSIVE LeadingDigits(_)
LeadingDigits(s) ==
    IF Len(s) > 0 /\ IsDigit(s[1]) THEN 1 + LeadingDigits(Tail(s)) ELSE 0

RECURSIVE DigitsToNum(_)
DigitsToNum(s) ==
    IF Len(s) = 0 THEN 0
    ELSE 10 * DigitsToNum(SubSeq(s, 1, Len(s) - 1)) + DigitValue(s[Len(s)])

\* String.prototype.toLowerCase, on the words the model uses
LowerWord(w) ==
    CASE w = "TRUE" -> "true"
      [] w = "True" -> "true"
      [] w = "FALSE" -> "false"
      [] w = "False" -> "false"
      [] w = "STABLE" -> "stable"
      [] w = "Stable" -> "stable"
      [] OTHER -> w

toLowerCase(s) == [i \in 1..Len(s) |-> LowerWord(s[i])]

\* ------------------------------------------------------------------------
\* JavaScript values held by the configuration: a tagged record, so that
\* values of different types can be compared.

StrV(s) == [t |-> "string", s |-> s, n |-> 0, b |-> FALSE]
NumV(n) == [t |-> "number", s |-> <<>>, n |-> n, b |-> FALSE]
BoolV(b) == [t |-> "boolean", s |-> <<>>, n |-> 0, b |-> b]
Undefined == [t |-> "undefined", s |-> <<>>, n |-> 0, b |-> FALSE]
NullV == [t |-> "null", s |-> <<>>, n |-> 0, b |-> FALSE]
\* an object, held as its JSON text
ObjectV(s) == [t |-> "object", s |-> s, n |-> 0, b |-> FALSE]

\* the string a value becomes inside a template literal
ToStr(v) ==
    CASE v.t = "string" -> v.s
      [] v.t = "number" -> NumToString(v.n)
      [] v.t = "boolean" -> IF v.b THEN <<"true">> ELSE <<"false">>
      [] v.t = "null" -> <<"null">>
      [] v.t = "object" -> <<"[object Object]">>
      [] OTHER -> <<"undefined">>

\* if (value): undefined, null, false, 0 and the empty string are falsy
Truthy(v) ==
    CASE v.t = "string" -> v.s # <<>>
      [] v.t = "number" -> v.n # 0
      [] v.t = "boolean" -> v.b
      [] v.t = "object" -> TRUE
      [] OTHER -> FALSE

\* An object is a sequence of [k, v] entries: Object.keys keeps insertion order.
Has(m, k) == \E i \in 1..Len(m) : m[i].k = k

Get(m, k) ==
    IF Has(m, k) THEN m[CHOOSE i \in 1..Len(m) : m[i].k = k].v ELSE Undefined

Put(m, k, v) ==
    IF Has(m, k)
    THEN [i \in 1..Len(m) |-> IF m[i].k = k THEN [k |-> k, v |-> v] ELSE m[i]]
    ELSE Append(m, [k |-> k, v |-> v])

\* {...a, ...b}
RECURSIVE Spread(_, _)
Spread(a, b) ==
    IF Len(b) = 0 THEN a ELSE Spread(Put(a, b[1].k, b[1].v), Tail(b))

Keys(m) == [i \in 1..Len(m) |-> m[i].k]

Values(m) == [i \in 1..Len(m) |-> m[i].v]

\* ------------------------------------------------------------------------
\* The files of the model

\* A file on disk: absent, not parsable as JSON, or a JSON object.  The state
\* names a file's content (see FileNamed) instead of holding it.
AbsentFile == [kind |-> "absent", m |-> <<>>]
BadFile == [kind |-> "bad", m |-> <<>>]
JsonFile(m) == [kind |-> "json", m |-> m]

existsSync(file) == file.kind # "absent"

CDN_PLAIN == <<"https", ":", "/", "/", "cdn", "/", "layouts">>
CDN_TEMPLATE == <<"https", ":", "/", "/", "cdn", "/", "layouts", "/", "${", "VERSION", "}">>

\* services.config.json / project.config.json contents
ConfigTemplated ==
    <<[k |-> "NAME", v |-> StrV(<<"layouts">>)],
      [k |-> "TITLE", v |-> StrV(<<"Layouts">>)],
      [k |-> "PORT", v |-> NumV(9000)],
      [k |-> "CDN_LOCATION", v |-> StrV(CDN_TEMPLATE)],
      [k |-> "RUNTIME_INJECTABLE", v |-> BoolV(TRUE)]>>

ConfigPlain ==
    <<[k |-> "NAME", v |-> StrV(<<"layouts">>)],
      [k |-> "TITLE", v |-> StrV(<<"Layouts">>)],
      [k |-> "PORT", v |-> NumV(9000)],
      [k |-> "CDN_LOCATION", v |-> StrV(CDN_PLAIN)]>>

\* a configuration file with no PORT
ConfigNoPort ==
    <<[k |-> "NAME", v |-> StrV(<<"layouts">>)],
      [k |-> "TITLE", v |-> StrV(<<"Layouts">>)],
      [k |-> "CDN_LOCATION", v |-> StrV(CDN_TEMPLATE)]>>

\* a configuration file with a value of every type: a string, a number, a
\* boolean, null and an object
ConfigTyped ==
    <<[k |-> "NAME", v |-> StrV(<<"layouts">>)],
      [k |-> "TITLE", v |-> StrV(<<"Layouts">>)],
      [k |-> "PORT", v |-> NumV(9000)],
      [k |-> "CDN_LOCATION", v |-> StrV(CDN_PLAIN)],
      [k |-> "RUNTIME_INJECTABLE", v |-> BoolV(TRUE)],
      [k |-> "MANIFEST", v |-> NullV],
      [k |-> "OPTIONS", v |-> ObjectV(<<"{", "}">>)]>>

\* a *.user.json override file
UserConfig == <<[k |-> "PORT", v |-> NumV(9001)]>>

PACKAGE_VERSION == <<"1", ".", "0", ".", "0">>

\* the file contents a project directory may hold, by name
FileNamed(name) ==
    CASE name = "absent" -> AbsentFile
      [] name = "bad" -> BadFile
      [] name = "templated" -> JsonFile(ConfigTemplated)
      [] name = "plain" -> JsonFile(ConfigPlain)
      [] name = "noport" -> JsonFile(ConfigNoPort)
      [] name = "typed" -> JsonFile(ConfigTyped)
      [] name = "user" -> JsonFile(UserConfig)

\* ------------------------------------------------------------------------
\* The project configuration (utils/getProjectConfig.ts)

REQUIRED_PROPERTIES == <<"NAME", "TITLE", "PORT", "CDN_LOCATION">>

missingProperties(m) ==
    SelectSeq(REQUIRED_PROPERTIES, LAMBDA prop : ~Has(m, prop))

\* parseFloat on a string of the model: the leading run of digits
parseFloatOk(input) == LeadingDigits(input) > 0

parseFloatValue(input) == DigitsToNum(SubSeq(input, 1, LeadingDigits(input)))

\* JSON.parse(input) on the JSON texts of the model: a number, true, false,
\* null and the empty object; anything else is a SyntaxError
jsonParses(input) ==
    \/ (Len(input) > 0 /\ LeadingDigits(input) = Len(input))
    \/ input \in {<<"true">>, <<"false">>, <<"null">>, <<"{", "}">>}

jsonParse(input) ==
    CASE input = <<"true">> -> BoolV(TRUE)
      [] input = <<"false">> -> BoolV(FALSE)
      [] input = <<"null">> -> NullV
      [] input = <<"{", "}">> -> ObjectV(input)
      [] OTHER -> NumV(DigitsToNum(input))

\* a parseCLIArg that hands a boolean key the string of the environment
parseCLIArgUntyped(input, defaultValue) ==
    IF input = <<"null">> THEN NullV
    ELSE IF input = <<"undefined">> THEN Undefined
    ELSE CASE defaultValue.t \in {"string", "boolean"} -> StrV(input)
           [] defaultValue.t = "number" ->
                IF parseFloatOk(input) THEN NumV(parseFloatValue(input)) ELSE defaultValue
           [] defaultValue.t \in {"object", "null"} ->
                IF jsonParses(input) THEN jsonParse(input) ELSE defaultValue
           [] OTHER -> defaultValue

\* parseCLIArg(input, defaultValue); typeof null is 'object'
parseCLIArg(input, defaultValue) ==
    IF input = <<"null">> THEN NullV
    ELSE IF input = <<"undefined">> THEN Undefined
    ELSE CASE defaultValue.t = "string" -> StrV(input)
           [] defaultValue.t = "number" ->
                IF parseFloatOk(input) THEN NumV(parseFloatValue(input)) ELSE defaultValue
           [] defaultValue.t = "boolean" ->
                IF toLowerCase(input) \in {<<"true">>, <<"false">>}
                THEN BoolV(toLowerCase(input) = <<"true">>)
                ELSE defaultValue
           [] defaultValue.t \in {"object", "null"} ->
                IF jsonParses(input) THEN jsonParse(input) ELSE defaultValue
           [] OTHER -> defaultValue

\* argList.forEach(...): every key of the configuration that the environment
\* also holds is overridden, parsed by the type of the existing value
RECURSIVE applyEnv(_, _, _)
applyEnv(m, argList, env) ==
    IF Len(argList) = 0 THEN m
    ELSE LET key == argList[1]
             m2 == IF Has(env, key)
                   THEN Put(m, key, parseCLIArg(Get(env, key).s, Get(m, key)))
                   ELSE m
         IN  applyEnv(m2, Tail(argList), env)

\* the module-level memo `config`: unset, or the object last assigned to it
UnsetConfig == [set |-> FALSE, m |-> <<>>]
SetConfig(m) == [set |-> TRUE, m |-> m]

\* The rest of getProjectConfig once the configuration file has been parsed and
\* assigned to `config`: required keys, user overrides, VERSION, environment.
loadParsedConfig(file, userFile, isService, d, env) ==
    IF Len(missingProperties(file.m)) > 0
    THEN [err |-> "MissingProperties", memo |-> SetConfig(file.m)]
    ELSE IF existsSync(userFile) /\ userFile.kind = "bad"
    THEN [err |-> "UserConfigParseError", memo |-> SetConfig(file.m)]
    ELSE LET merged == IF existsSync(userFile) THEN Spread(file.m, userFile.m) ELSE file.m
             versioned == Put(merged, "VERSION", StrV(PACKAGE_VERSION))
             overridden == applyEnv(versioned, Keys(versioned), env)
         IN  [err |-> "none",
              memo |-> SetConfig(Put(overridden, "IS_SERVICE", BoolV(isService)))]

\* getProjectConfig(): the error thrown ("none": it returned) and the memo it
\* leaves; the value returned is the memo's object
getProjectConfig(memo, d, env) ==
    IF memo.set THEN [err |-> "none", memo |-> memo]
    ELSE IF ~existsSync(FileNamed(d.service)) /\ ~existsSync(FileNamed(d.project))
    THEN [err |-> "ConfigNotFound", memo |-> memo]
    ELSE LET isService == existsSync(FileNamed(d.service))
             file == FileNamed(IF isService THEN d.service ELSE d.project)
             userFile == FileNamed(IF isService THEN d.userService ELSE d.userProject)
         IN  IF file.kind = "bad"
             THEN [err |-> "ConfigParseError", memo |-> memo]
             ELSE loadParsedConfig(file, userFile, isService, d, env)

\* ------------------------------------------------------------------------
\* The URL templater (utils/url.ts)

Punctuation == {":", "/", "?", ".", "-", "=", "}", "${"}

IsWord(c) == c \notin (Digits \cup Punctuation)

\* Whether `return \`${urlTemplate}\`` compiles.  The templates of the model hold
\* only substitutions of one identifier, "${" WORD "}"; a marker that is not
\* closed that way is a syntax error.
RECURSIVE templateCompiles(_)
templateCompiles(s) ==
    IF Len(s) = 0 THEN TRUE
    ELSE IF s[1] = "${"
    THEN /\ Len(s) >= 3
         /\ IsWord(s[2])
         /\ s[3] = "}"
         /\ templateCompiles(SubSeq(s, 4, Len(s)))
    ELSE templateCompiles(Tail(s))

\* templateFunc(...Object.values(params)): the function was compiled with the
\* parameter names `names` and its arguments are bound by position; a name that
\* is no parameter is a ReferenceError, a parameter with no argument is undefined.
argumentOf(names, args, name) ==
    LET i == CHOOSE j \in 1..Len(names) : names[j] = name
    IN  IF i <= Len(args) THEN ToStr(args[i]) ELSE <<"undefined">>

RECURSIVE templateFunc(_, _, _)
templateFunc(s, names, args) ==
    IF Len(s) = 0 THEN [err |-> FALSE, s |-> <<>>]
    ELSE IF s[1] = "${"
    THEN IF \E j \in 1..Len(names) : names[j] = s[2]
         THEN LET rest == templateFunc(SubSeq(s, 4, Len(s)), names, args)
              IN  [err |-> rest.err, s |-> argumentOf(names, args, s[2]) \o rest.s]
         ELSE [err |-> TRUE, s |-> <<>>]
    ELSE LET rest == templateFunc(Tail(s), names, args)
         IN  [err |-> rest.err, s |-> <<s[1]>> \o rest.s]

\* What replaceUrlParams returns or throws, with the state it leaves
Templated(err, value, memo, tc) ==
    [err |-> err, value |-> value, memo |-> memo, templateCache |-> tc]

\* return templateFunc(...Object.values(params)).replace(trailingSlash, '')
runTemplate(r, memo, tc) ==
    IF r.err
    THEN Templated("ReferenceError", <<>>, memo, tc)
    ELSE Templated("none", stripTrailingSlash(r.s), memo, tc)

\* let templateFunc = templateCache[urlTemplate]; if (!templateFunc) { ... }
\* templateCache maps a template to the parameter names of its compiled function
compileTemplate(urlTemplate, params, memo, tc) ==
    IF urlTemplate \in DOMAIN tc
    THEN runTemplate(templateFunc(urlTemplate, tc[urlTemplate], Values(params)), memo, tc)
    ELSE IF ~templateCompiles(urlTemplate)
    THEN Templated("SyntaxError", <<>>, memo, tc)
    ELSE runTemplate(templateFunc(urlTemplate, Keys(params), Values(params)), memo,
                     tc @@ (urlTemplate :> Keys(params)))

\* const params = {...getProjectConfig(), ...overrideArgs};
templateParams(urlTemplate, overrideArgs, cfg, tc) ==
    IF cfg.err # "none"
    THEN Templated(cfg.err, <<>>, cfg.memo, tc)
    ELSE compileTemplate(urlTemplate, Spread(cfg.memo.m, overrideArgs), cfg.memo, tc)

\* a replaceUrlParams that normalises a plain URL too
replaceUrlParamsNormalised(urlTemplate, overrideArgs, memo, d, env, tc) ==
    IF indexOf(urlTemplate, <<"${">>) = -1
    THEN Templated("none", stripTrailingSlash(urlTemplate), memo, tc)
    ELSE templateParams(urlTemplate, overrideArgs, getProjectConfig(memo, d, env), tc)

\* replaceUrlParams(urlTemplate, overrideArgs), with the state it reads and
\* writes: the configuration memo and templateCache
replaceUrlParams(urlTemplate, overrideArgs, memo, d, env, tc) ==
    IF indexOf(urlTemplate, <<"${">>) = -1
    THEN Templated("none", urlTemplate, memo, tc)
    ELSE templateParams(urlTemplate, overrideArgs, getProjectConfig(memo, d, env), tc)

\* ------------------------------------------------------------------------
\* The provider URL resolver (utils/manifest.ts, utils/getProviderUrl.ts)

\* `http://localhost:${PORT}`
localhost(PORT) == <<"http", ":", "/", "/", "localhost", ":">> \o ToStr(PORT)

DEMO_PROVIDER == <<"/", "demo", "/", "provider", ".", "json">>
TEST_PROVIDER == <<"/", "test", "/", "provider", ".", "json">>
PROVIDER_APP == <<"/", "provider", "/", "app", ".", "json">>
APP_JSON == <<"/", "app", ".", "json">>
APP_STAGING_JSON == <<"/", "app", ".", "staging", ".", "json">>

\* An optional string argument: not given, or the string
NoArg == [given |-> FALSE, s |-> <<>>]
Arg(s) == [given |-> TRUE, s |-> s]

\* const index = (manifestUrl && manifestUrl.indexOf('?')) || -1;
\* undefined, the empty string and the index 0 are all falsy
queryIndex(manifestUrl) ==
    IF manifestUrl.given /\ manifestUrl.s # <<>> /\ indexOf(manifestUrl.s, <<"?">>) # 0
    THEN indexOf(manifestUrl.s, <<"?">>)
    ELSE -1

\* const query = index >= 0 ? manifestUrl!.substr(index) : '';
queryOf(manifestUrl) ==
    IF queryIndex(manifestUrl) >= 0
    THEN substr(manifestUrl.s, queryIndex(manifestUrl))
    ELSE <<>>

\* version.indexOf('://') tested for truth: -1 is truthy
looksAbsoluteTruthy(version) == indexOf(version, <<":", "/", "/">>) # 0

\* version.indexOf('://') >= 0
looksAbsoluteAnywhere(version) == indexOf(version, <<":", "/", "/">>) >= 0

\* version.indexOf('://') > 0
looksAbsolute(version) == indexOf(version, <<":", "/", "/">>) > 0

\* The if/else chain of utils/manifest.ts that picks the URL for a version token:
\* the error thrown, the URL, the template overrides and the number of
\* existsSync calls made
resolveVersion(version, config, d) ==
    LET PORT == Get(config, "PORT")
        CDN_LOCATION == ToStr(Get(config, "CDN_LOCATION"))
    IN  IF version = <<"local">>
        THEN [err |-> "none", fsChecks |-> 1, overrideArgs |-> <<>>,
              url |-> localhost(PORT) \o (IF d.demoProvider THEN DEMO_PROVIDER ELSE PROVIDER_APP)]
        ELSE IF version = <<"stable">>
        THEN [err |-> "none", fsChecks |-> 0, url |-> CDN_LOCATION \o APP_JSON,
              overrideArgs |-> <<[k |-> "VERSION", v |-> StrV(<<>>)]>>]
        ELSE IF version = <<"staging">>
        THEN [err |-> "none", fsChecks |-> 0, url |-> CDN_LOCATION \o APP_STAGING_JSON,
              overrideArgs |-> <<[k |-> "VERSION", v |-> StrV(<<>>)]>>]
        ELSE IF version = <<"testing">>
        THEN [err |-> "none", fsChecks |-> 1, overrideArgs |-> <<>>,
              url |-> localhost(PORT) \o (IF d.testProvider THEN TEST_PROVIDER ELSE PROVIDER_APP)]
        ELSE IF looksAbsolute(version)
        THEN [err |-> "none", fsChecks |-> 0, overrideArgs |-> <<>>, url |-> version]
        ELSE IF semverTest(version)
        THEN [err |-> "none", fsChecks |-> 0, url |-> CDN_LOCATION \o APP_JSON,
              overrideArgs |-> <<[k |-> "VERSION", v |-> StrV(version)]>>]
        ELSE [err |-> "NotValidVersion", fsChecks |-> 0, overrideArgs |-> <<>>, url |-> <<>>]

\* A failed call: nothing but the configuration memo and templateCache may
\* have changed
Thrown(err, uc, memo, tc, fsChecks) ==
    [err |-> err, value |-> <<>>, urlCache |-> uc, memo |-> memo, templateCache |-> tc,
     fsChecks |-> fsChecks, cacheHit |-> FALSE]

\* let url = urlCache[version]; if (!url) ...
cachedUrl(uc, version) ==
    IF version \in DOMAIN uc /\ uc[version] # <<>> THEN Arg(uc[version]) ELSE NoArg

\* return `${url}${query}` on a cache hit
returnCached(version, manifestUrl, uc, memo, tc) ==
    [err |-> "none", value |-> cachedUrl(uc, version).s \o queryOf(manifestUrl),
     urlCache |-> uc, memo |-> memo, templateCache |-> tc, fsChecks |-> 0,
     cacheHit |-> TRUE]

\* a cache that keeps the URL as it is returned, query string included
returnCachingQuery(version, manifestUrl, uc, fsChecks, url, cached) ==
    IF cached.err # "none"
    THEN Thrown(cached.err, uc, cached.memo, cached.templateCache, fsChecks)
    ELSE [err |-> "none", value |-> url \o queryOf(manifestUrl),
          urlCache |-> [t \in DOMAIN uc \cup {version} |->
                            IF t = version THEN cached.value \o queryOf(manifestUrl)
                            ELSE uc[t]],
          memo |-> cached.memo, templateCache |-> cached.templateCache,
          fsChecks |-> fsChecks, cacheHit |-> FALSE]

\* urlCache[version] = cached; return `${url}${query}` on a cache miss
returnResolved(version, manifestUrl, uc, fsChecks, url, cached) ==
    IF cached.err # "none"
    THEN Thrown(cached.err, uc, cached.memo, cached.templateCache, fsChecks)
    ELSE [err |-> "none", value |-> url \o queryOf(manifestUrl),
          urlCache |-> [t \in DOMAIN uc \cup {version} |->
                            IF t = version THEN cached.value ELSE uc[t]],
          memo |-> cached.memo, templateCache |-> cached.templateCache,
          fsChecks |-> fsChecks, cacheHit |-> FALSE]

\* utils/manifest.ts: url = replaceUrlParams(url, overrideArgs) has run;
\* urlCache[version] = replaceUrlParams(url)
cacheTemplated(version, manifestUrl, uc, fsChecks, applied, d, env) ==
    IF applied.err # "none"
    THEN Thrown(applied.err, uc, applied.memo, applied.templateCache, fsChecks)
    ELSE returnResolved(version, manifestUrl, uc, fsChecks, applied.value,
                        replaceUrlParams(applied.value, <<>>, applied.memo, d, env,
                                         applied.templateCache))

\* utils/manifest.ts: the version token has been looked up (res);
\* url = replaceUrlParams(url, overrideArgs)
applyTemplate(version, manifestUrl, uc, res, memo, d, env, tc) ==
    IF res.err # "none"
    THEN Thrown(res.err, uc, memo, tc, res.fsChecks)
    ELSE cacheTemplated(version, manifestUrl, uc, res.fsChecks,
                        replaceUrlParams(res.url, res.overrideArgs, memo, d, env, tc),
                        d, env)

\* utils/manifest.ts: const {PORT, CDN_LOCATION} = getProjectConfig() has run (cfg)
resolveWithConfig(version, manifestUrl, uc, cfg, d, env, tc) ==
    IF cfg.err # "none"
    THEN Thrown(cfg.err, uc, cfg.memo, tc, 0)
    ELSE applyTemplate(version, manifestUrl, uc, resolveVersion(version, cfg.memo.m, d),
                       cfg.memo, d, env, tc)

\* getProviderUrl(version, manifestUrl) of utils/manifest.ts
getProviderUrl(version, manifestUrl, uc, memo, d, env, tc) ==
    IF cachedUrl(uc, version).given
    THEN returnCached(version, manifestUrl, uc, memo, tc)
    ELSE resolveWithConfig(version, manifestUrl, uc, getProjectConfig(memo, d, env),
                           d, env, tc)

\* The if/else chain of utils/getProviderUrl.ts: the same rows, and overrideArgs
\* is set only for a version number
resolveVersionV0(version, config, d) ==
    IF version \in {<<"stable">>, <<"staging">>}
    THEN [resolveVersion(version, config, d) EXCEPT !.overrideArgs = <<>>]
    ELSE resolveVersion(version, config, d)

\* utils/getProviderUrl.ts: the version token has been looked up (res);
\* urlCache[version] = replaceUrlParams(url): overrideArgs is never read, and the
\* URL returned is the one that was not templated
applyTemplateV0(version, manifestUrl, uc, res, memo, d, env, tc) ==
    IF res.err # "none"
    THEN Thrown(res.err, uc, memo, tc, res.fsChecks)
    ELSE returnResolved(version, manifestUrl, uc, res.fsChecks, res.url,
                        replaceUrlParams(res.url, <<>>, memo, d, env, tc))

\* utils/getProviderUrl.ts: const {PORT, CDN_LOCATION} = getProjectConfig() has run
resolveWithConfigV0(version, manifestUrl, uc, cfg, d, env, tc) ==
    IF cfg.err # "none"
    THEN Thrown(cfg.err, uc, cfg.memo, tc, 0)
    ELSE applyTemplateV0(version, manifestUrl, uc,
                         resolveVersionV0(version, cfg.memo.m, d), cfg.memo, d, env, tc)

\* getProviderUrl(version, manifestUrl) of utils/getProviderUrl.ts
getProviderUrlV0(version, manifestUrl, uc, memo, d, env, tc) ==
    IF cachedUrl(uc, version).given
    THEN returnCached(version, manifestUrl, uc, memo, tc)
    ELSE resolveWithConfigV0(version, manifestUrl, uc, getProjectConfig(memo, d, env),
                             d, env, tc)

\* ------------------------------------------------------------------------
\* Promises and withTimeout (utils/timeout.ts)

\* A promise: pending, fulfilled with a value, or rejected with an error
Pending == [st |-> "pending", v |-> <<>>]
Fulfilled(v) == [st |-> "fulfilled", v |-> v]
Rejected(e) == [st |-> "rejected", v |-> <<e>>]

\* the promise timeoutAction returns, before timeoutAction has been called
NotCalled == [st |-> "none", v |-> <<>>]

\* resolve(...) / reject(...) of `new Promise`: only the first call settles it
settle(outer, p) == IF outer.st = "pending" THEN p ELSE outer

\* withTimeout(action, timeoutMs, timeoutAction) has returned and the
\* microtasks it queued have run: the timer is armed, and the reactions of
\* action.then(...) have run if action was settled already.  keepWaiting
\* says that timeoutAction returns the action it is given.  inTime records
\* that action settled before the timer fired.
withTimeout(action, keepWaiting) ==
    [action |-> action,
     timer |-> IF action.st = "fulfilled" THEN "cleared" ELSE "armed",
     fallback |-> NotCalled,
     outer |-> settle(Pending, action),
     timeoutActionCalls |-> 0,
     keepWaiting |-> keepWaiting,
     inTime |-> action.st # "pending"]

\* action settles as p: (result) => {clearTimeout(timeout); resolve(result)}
\* on fulfilment, reject on rejection; a timeoutAction that returned the
\* action settles with it
actionSettles(w, p) ==
    [w EXCEPT !.action = p,
              !.timer = IF p.st = "fulfilled" /\ w.timer = "armed" THEN "cleared" ELSE w.timer,
              !.fallback = IF w.keepWaiting /\ w.fallback.st = "pending" THEN p ELSE w.fallback,
              !.outer = settle(w.outer, p),
              !.inTime = w.timer # "fired"]

\* the timer fires, with a timeoutAction that gives up and rejects
timerFiresRejects(w) ==
    [w EXCEPT !.timer = "fired",
              !.timeoutActionCalls = w.timeoutActionCalls + 1,
              !.fallback = Rejected("Timeout"),
              !.outer = settle(w.outer, Rejected("Timeout"))]

\* the timer fires: timeoutAction(action).then(resolve, reject)
timerFires(w) ==
    [w EXCEPT !.timer = "fired",
              !.timeoutActionCalls = w.timeoutActionCalls + 1,
              !.fallback = IF w.keepWaiting THEN w.action ELSE Pending,
              !.outer = IF w.keepWaiting /\ w.action.st # "pending"
                        THEN settle(w.outer, w.action)
                        ELSE w.outer]

\* the promise timeoutAction returned settles as p: resolve / reject
timeoutActionSettles(w, p) ==
    [w EXCEPT !.fallback = p, !.outer = settle(w.outer, p)]

\* ------------------------------------------------------------------------
\* The runtime version resolver (utils/runtime.ts)

RELEASE_CHANNELS ==
    <<<<"stable">>, <<"alpha">>, <<"beta">>, <<"canary">>, <<"canary", "-", "next">>>>

\* s.split('.')
RECURSIVE split(_)
split(s) ==
    IF indexOf(s, <<".">>) < 0 THEN <<s>>
    ELSE <<SubSeq(s, 1, indexOf(s, <<".">>))>> \o split(substr(s, indexOf(s, <<".">>) + 1))

\* a replace that looks for the pattern at the start of the string only
replaceAtStart(s, pattern, replacement) ==
    IF indexOf(s, pattern) # 0 THEN s
    ELSE replacement \o substr(s, Len(pattern))

\* s.replace(pattern, replacement) with a string pattern: the first occurrence
replace(s, pattern, replacement) ==
    IF indexOf(s, pattern) < 0 THEN s
    ELSE SubSeq(s, 1, indexOf(s, pattern)) \o replacement
         \o substr(s, indexOf(s, pattern) + Len(pattern))

\* the words that end with "stable"
EndsWithStable(w) == w \in {"stable", "unstable"}

\* /stable-v\d+/.test(s)
stableVTest(s) ==
    \E i \in 1..Len(s) :
        /\ i + 3 <= Len(s)
        /\ EndsWithStable(s[i])
        /\ s[i + 1] = "-"
        /\ s[i + 2] = "v"
        /\ IsDigit(s[i + 3])

\* RELEASE_CHANNELS.indexOf(version.toLowerCase()) >= 0 || /stable-v\d+/.test(version)
isReleaseChannel(version) ==
    \/ \E i \in 1..Len(RELEASE_CHANNELS) : RELEASE_CHANNELS[i] = toLowerCase(version)
    \/ stableVTest(version)

\* mapRuntimeVersion(version), given the PORT of the configuration
mapRuntimeVersion(version, PORT) == replace(version, split(version)[1], ToStr(PORT))

\* PORT.toString() throws a TypeError when PORT is undefined or null
toStringThrows(v) == v.t \in {"undefined", "null"}

\* mapRuntimeVersion(version): const {PORT} = getProjectConfig() has run (cfg)
mapWithConfig(version, cfg) ==
    IF cfg.err # "none"
    THEN [err |-> cfg.err, value |-> <<>>, memo |-> cfg.memo]
    ELSE IF toStringThrows(Get(cfg.memo.m, "PORT"))
    THEN [err |-> "TypeError", value |-> <<>>, memo |-> cfg.memo]
    ELSE [err |-> "none", value |-> mapRuntimeVersion(version, Get(cfg.memo.m, "PORT")),
          memo |-> cfg.memo]

\* an installRuntime without the check of the leading component
installUnchecked(version, cfg) ==
    IF cfg.err # "none"
    THEN [action |-> Rejected(cfg.err), contacted |-> FALSE, memo |-> cfg.memo]
    ELSE [action |-> Pending, contacted |-> TRUE, memo |-> cfg.memo]

\* installRuntime(version) up to its first await: the promise it returns,
\* whether connect(...) was called, and the configuration memo.
\* getProjectConfig() is called only for a version of four parts.
installChecked(version, cfg) ==
    IF cfg.err # "none"
    THEN [action |-> Rejected(cfg.err), contacted |-> FALSE, memo |-> cfg.memo]
    ELSE IF toStringThrows(Get(cfg.memo.m, "PORT"))
    THEN [action |-> Rejected("TypeError"), contacted |-> FALSE, memo |-> cfg.memo]
    ELSE IF split(version)[1] = ToStr(Get(cfg.memo.m, "PORT"))
    THEN [action |-> Rejected("MappedVersion"), contacted |-> FALSE, memo |-> cfg.memo]
    ELSE [action |-> Pending, contacted |-> TRUE, memo |-> cfg.memo]

installRuntime(version, memo, d, env) ==
    IF Len(split(version)) = 4
    THEN installChecked(version, getProjectConfig(memo, d, env))
    ELSE [action |-> Pending, contacted |-> TRUE, memo |-> memo]

\* A resolveRuntimeVersion call: where it is (pc), its argument, the
\* withTimeout it awaits, the promise it returned, whether it called
\* connect(...), and what releaseChannelMappings held when it was called
NotWaiting == [withTimeout(Pending, TRUE) EXCEPT !.timer = "none"]

IdleCall ==
    [pc |-> "idle", version |-> <<>>, w |-> NotWaiting, result |-> Pending,
     contacted |-> FALSE, cachedAtStart |-> FALSE, mappingAtStart |-> <<>>]

\* resolveRuntimeVersion(version): await withTimeout(installRuntime(version), ...)
\* has been reached with the promise installRuntime returned
awaitInstall(version, installed) ==
    [call |-> [pc |-> IF installed.action.st = "pending" THEN "awaiting" ELSE "returned",
               version |-> version,
               w |-> withTimeout(installed.action, TRUE),
               result |-> installed.action,
               contacted |-> installed.contacted,
               cachedAtStart |-> FALSE, mappingAtStart |-> <<>>],
     memo |-> installed.memo]

\* resolveRuntimeVersion(version) without the releaseChannelMappings lookup
resolveRuntimeVersionUncached(version, mappings, memo, d, env) ==
    IF ~isReleaseChannel(version)
    THEN [call |-> [IdleCall EXCEPT !.pc = "returned", !.version = version,
                                    !.result = Fulfilled(version)],
          memo |-> memo]
    ELSE awaitInstall(version, installRuntime(version, memo, d, env))

\* resolveRuntimeVersion(version) up to its first await
resolveRuntimeVersion(version, mappings, memo, d, env) ==
    IF ~isReleaseChannel(version)
    THEN [call |-> [IdleCall EXCEPT !.pc = "returned", !.version = version,
                                    !.result = Fulfilled(version)],
          memo |-> memo]
    ELSE IF version \in DOMAIN mappings
    THEN [call |-> [IdleCall EXCEPT !.pc = "returned", !.version = version,
                                    !.result = Fulfilled(mappings[version])],
          memo |-> memo]
    ELSE awaitInstall(version, installRuntime(version, memo, d, env))

\* resolveRuntimeVersion after its await: the promise withTimeout returned has
\* settled; releaseChannelMappings[version] = mappedVersion; return mappedVersion
resumeCall(c, w) ==
    IF c.pc = "awaiting" /\ w.outer.st # "pending"
    THEN [c EXCEPT !.pc = "returned", !.w = w, !.result = w.outer]
    ELSE [c EXCEPT !.w = w]

resumeMappings(c, w, mappings) ==
    IF c.pc = "awaiting" /\ w.outer.st = "fulfilled"
    THEN [t \in DOMAIN mappings \cup {c.version} |->
              IF t = c.version THEN w.outer.v ELSE mappings[t]]
    ELSE mappings

\* ------------------------------------------------------------------------
\* The runtime installations (utils/runtime.ts)

\* path.join(dir, 'OpenFin/runtime', version)
runtimePath(dir, version) == dir \o <<"/", "OpenFin", "/", "runtime", "/">> \o version

\* the switch of getInstallDirectory: the directory that os.platform() and
\* process.env name, undefined when they name none
defaultInstallRoot(platform, e) ==
    CASE platform \in {"cygwin", "win32"} -> Get(e, "LOCALAPPDATA")
      [] platform = "darwin" -> StrV(<<"~", "/", "Library", "/", "Application Support">>)
      [] OTHER -> IF Truthy(Get(e, "XDG_CONFIG_HOME"))
                  THEN Get(e, "XDG_CONFIG_HOME")
                  ELSE StrV(<<"~", "/", ".config">>)

\* getInstallDirectory(version)
getInstallDirectory(version, platform, e) ==
    IF ~Truthy(defaultInstallRoot(platform, e))
    THEN [err |-> "InstallDirectoryNotKnown", dir |-> <<>>]
    ELSE [err |-> "none", dir |-> runtimePath(defaultInstallRoot(platform, e).s, version)]

\* an isRuntimeInstalled that lets the error of getInstallDirectory through
isRuntimeInstalledUncaught(version, platform, e, dirs) ==
    [err |-> getInstallDirectory(version, platform, e).err,
     value |-> getInstallDirectory(version, platform, e).dir \in dirs]

\* isRuntimeInstalled(version): the error it throws ("none": it returned) and
\* the value returned; dirs are the directories that exist
isRuntimeInstalled(version, platform, e, dirs) ==
    IF getInstallDirectory(version, platform, e).err # "none"
    THEN [err |-> "none", value |-> FALSE]
    ELSE [err |-> "none", value |-> getInstallDirectory(version, platform, e).dir \in dirs]

\* the runtime version of the provider manifest, res/provider/app.json; the file
\* does not change, so the memo providerRuntime is not part of the state
getProviderRuntime == <<"6", ".", "5", "5", ".", "1", "0", ".", "1", "2">>

\* prepareRuntime(args): where it is (pc), the versions it works on, the
\* directories of the fs.copy it awaits, and the error it was rejected with
NoPrep ==
    [pc |-> "idle", runtime |-> <<>>, isChannel |-> FALSE, runtimeVersion |-> <<>>,
     customRuntime |-> <<>>, src |-> <<>>, dest |-> <<>>, err |-> "none",
     dirsAtCall |-> {}]

\* prepareRuntime after a step, with the state the step leaves: the
\* configuration memo, the machine, the command-line arguments, and whether
\* connect(...) was called
Prepared(p, memo, m, a, contacted) ==
    [p |-> p, memo |-> memo, machine |-> m, args |-> a, contacted |-> contacted]

failPrep(p, err) == [p EXCEPT !.pc = "rejected", !.err = err]

\* fs.copyFileSync(srcPath, destPath): the ASAR goes into the directory of
\* customRuntime, which has to exist
copyAsar(p, memo, m, a, e) ==
    IF getInstallDirectory(p.customRuntime, m.platform, e).err # "none"
    THEN Prepared(failPrep(p, getInstallDirectory(p.customRuntime, m.platform, e).err),
                  memo, m, a, FALSE)
    ELSE IF getInstallDirectory(p.customRuntime, m.platform, e).dir \notin m.dirs
    THEN Prepared(failPrep(p, "ENOENT"), memo, m, a, FALSE)
    ELSE Prepared([p EXCEPT !.pc = "done"], memo,
                  [m EXCEPT !.asars =
                      @ \cup {getInstallDirectory(p.customRuntime, m.platform, e).dir}],
                  a, FALSE)

\* if (!isRuntimeInstalled(customRuntime)) await fs.copy(...), with
\* customRuntime = mapRuntimeVersion(runtimeVersion) computed (mapped)
copyRuntime(p, mapped, m, a, e) ==
    IF mapped.err # "none"
    THEN Prepared(failPrep(p, mapped.err), mapped.memo, m, a, FALSE)
    ELSE IF isRuntimeInstalled(mapped.value, m.platform, e, m.dirs).value
    THEN copyAsar([p EXCEPT !.customRuntime = mapped.value], mapped.memo, m, a, e)
    ELSE IF getInstallDirectory(mapped.value, m.platform, e).err # "none"
    THEN Prepared(failPrep(p, getInstallDirectory(mapped.value, m.platform, e).err),
                  mapped.memo, m, a, FALSE)
    ELSE Prepared([p EXCEPT !.pc = "copy", !.customRuntime = mapped.value,
                            !.src = getInstallDirectory(p.runtimeVersion, m.platform, e).dir,
                            !.dest = getInstallDirectory(mapped.value, m.platform, e).dir],
                  mapped.memo, m, a, FALSE)

\* prepareRuntime from `const customRuntime = mapRuntimeVersion(runtimeVersion)`
afterInstall(p, runtimeVersion, memo, m, a, d, e) ==
    copyRuntime([p EXCEPT !.runtimeVersion = runtimeVersion],
                mapWithConfig(runtimeVersion, getProjectConfig(memo, d, e)), m, a, e)

\* await installRuntime(runtime), called with the promise it returned
awaitInstallRuntime(p, installed, m, a) ==
    IF installed.action.st = "rejected"
    THEN Prepared(failPrep(p, installed.action.v[1]), installed.memo, m, a,
                  installed.contacted)
    ELSE Prepared([p EXCEPT !.pc = "install"], installed.memo, m, a, installed.contacted)

\* prepareRuntime with the ASAR built and `runtime` read
installOrCopy(p, memo, m, a, d, e) ==
    IF p.isChannel \/ ~isRuntimeInstalled(p.runtime, m.platform, e, m.dirs).value
    THEN awaitInstallRuntime(p, installRuntime(p.runtime, memo, d, e), m, a)
    ELSE afterInstall(p, p.runtime, memo, m, a, d, e)

\* const runtime = args.runtime || require(getProviderPath()).runtime.version
afterAsar(p, memo, m, a, d, e) ==
    installOrCopy([p EXCEPT !.runtime = IF a.runtime # <<>> THEN a.runtime
                                        ELSE getProviderRuntime,
                            !.isChannel = isReleaseChannel(IF a.runtime # <<>> THEN a.runtime
                                                           ELSE getProviderRuntime)],
                  memo, m, a, d, e)

\* prepareRuntime(args) up to its first await, or to its return without --asar;
\* `write` is args.static || args.write
prepareRuntime(p, write, cfg, m, a) ==
    IF ~a.asar
    THEN Prepared([p EXCEPT !.pc = "done", !.dirsAtCall = m.dirs], cfg.memo, m, a, FALSE)
    ELSE IF cfg.err # "none"
    THEN Prepared(failPrep([p EXCEPT !.dirsAtCall = m.dirs], cfg.err), cfg.memo, m, a, FALSE)
    ELSE Prepared([p EXCEPT !.pc = IF write THEN "asar" ELSE "build", !.dirsAtCall = m.dirs],
                  cfg.memo, m, a, FALSE)

\* the runtime that the adapter connection reported is installed where
\* getInstallDirectory expects it, when that is an absolute path
installedBy(m, version, e) ==
    IF /\ getInstallDirectory(version, m.platform, e).err = "none"
       /\ getInstallDirectory(version, m.platform, e).dir[1] # "~"
    THEN [m EXCEPT !.dirs = @ \cup {getInstallDirectory(version, m.platform, e).dir}]
    ELSE m

\* ------------------------------------------------------------------------
\* The manifest rewriter (utils/getManifest.ts)

\* A service declaration: {name, manifestUrl?, config?}
ServiceDeclaration(name, manifestUrl, config) ==
    [name |-> name, manifestUrl |-> manifestUrl, config |-> config]

\* An application manifest: the fields getManifest and the servers read and
\* write.  url, icon and shortcutIcon are optional strings; autoShow is an
\* optional boolean; app holds the keys added to startup_app; services is the
\* list, or absent; runtimeVersion and runtimeArguments are runtime.version and
\* runtime.arguments.
ClassicManifest(url, icon, shortcut, shortcutIcon, services, version) ==
    [startup_app |-> TRUE, url |-> url, icon |-> icon, autoShow |-> Undefined,
     app |-> <<>>, shortcut |-> shortcut, shortcutIcon |-> shortcutIcon,
     services |-> services, runtimeVersion |-> version,
     runtimeArguments |-> <<"--", "v", "=", "1">>, licenseKey |-> <<"license">>]

NoServices == [given |-> FALSE, list |-> <<>>]
Services(list) == [given |-> TRUE, list |-> list]

\* a JSON document with no startup_app
NoStartupApp ==
    [ClassicManifest(NoArg, NoArg, FALSE, NoArg, NoServices, <<>>) EXCEPT !.startup_app = FALSE]

\* getJsonFileSync(path): the document, or nothing when the file is absent or
\* does not parse
getJsonFileSync(file) ==
    IF file.kind = "json" THEN [given |-> TRUE, doc |-> file.m]
    ELSE [given |-> FALSE, doc |-> NoStartupApp]

\* configPath.split('/')[0]
firstSegment(configPath) ==
    IF indexOf(configPath, <<"/">>) < 0 THEN configPath
    ELSE SubSeq(configPath, 1, indexOf(configPath, <<"/">>))

\* const component = IS_SERVICE ? `/${configPath.split('/')[0]}` : '';
\* const baseUrl = context === DEBUG ? `http://localhost:${PORT}${component}` : CDN_LOCATION;
baseUrlOf(configPath, context, m) ==
    IF context = "DEBUG"
    THEN localhost(Get(m, "PORT"))
         \o (IF Truthy(Get(m, "IS_SERVICE")) THEN <<"/">> \o firstSegment(configPath) ELSE <<>>)
    ELSE ToStr(Get(m, "CDN_LOCATION"))

\* What getManifest has made of the manifest so far, the error it threw, and
\* the module state it leaves
Rewriting(err, doc, memo, tc, uc) ==
    [err |-> err, doc |-> doc, memo |-> memo, templateCache |-> tc, urlCache |-> uc]

\* field = replaceUrlParams(...) has run (r)
assignField(st, field, r) ==
    IF r.err # "none"
    THEN [st EXCEPT !.err = r.err, !.memo = r.memo, !.templateCache = r.templateCache]
    ELSE [st EXCEPT !.doc[field] = Arg(r.value), !.memo = r.memo,
                    !.templateCache = r.templateCache]

\* if (field) { field = replaceUrlParams(field.replace(CDN_LOCATION, baseUrl)); }
rewriteField(st, field, configPath, context, d, env) ==
    IF st.err # "none" \/ ~st.doc[field].given \/ st.doc[field].s = <<>>
    THEN st
    ELSE assignField(st, field,
                     replaceUrlParams(replace(st.doc[field].s,
                                              ToStr(Get(st.memo.m, "CDN_LOCATION")),
                                              baseUrlOf(configPath, context, st.memo.m)),
                                      <<>>, st.memo, d, env, st.templateCache))

\* the three rewrites, in the order of the code; shortcut.icon only when the
\* manifest has a shortcut
rewriteUrls(st, configPath, context, d, env) ==
    IF st.doc.shortcut
    THEN rewriteField(rewriteField(rewriteField(st, "url", configPath, context, d, env),
                                   "icon", configPath, context, d, env),
                      "shortcutIcon", configPath, context, d, env)
    ELSE rewriteField(rewriteField(st, "url", configPath, context, d, env),
                      "icon", configPath, context, d, env)

\* (config.services || []).find((service) => service.name === NAME): its index,
\* 0 when there is none
serviceDefinition(doc, NAME) ==
    IF \E i \in 1..Len(doc.services.list) : StrV(doc.services.list[i].name) = NAME
    THEN SetMin({i \in 1..Len(doc.services.list) : StrV(doc.services.list[i].name) = NAME})
    ELSE 0

\* `${NAME}Api`, `${NAME}Config`, `${NAME}Manifest`
injectedKey(NAME, suffix) == ToStr(NAME) \o <<suffix>>

\* injectableApp[`${NAME}Api`] = true;
\* if (service.config) { injectableApp[`${NAME}Config`] = service.config; }
annotated(app, service, NAME) ==
    IF Truthy(service.config)
    THEN Put(Put(app, injectedKey(NAME, "Api"), BoolV(TRUE)),
             injectedKey(NAME, "Config"), service.config)
    ELSE Put(app, injectedKey(NAME, "Api"), BoolV(TRUE))

\* the state a call of getProviderUrl (r) has left
resolved(st, r) ==
    [st EXCEPT !.err = r.err, !.memo = r.memo, !.templateCache = r.templateCache,
               !.urlCache = r.urlCache]

\* injectableApp[`${NAME}Manifest`] = getProviderUrl(...) has run (r)
setInjectedManifest(st, i, NAME, r) ==
    IF r.err # "none" THEN resolved(st, r)
    ELSE [resolved(st, r) EXCEPT
             !.doc.app = Put(annotated(@, st.doc.services.list[i], NAME),
                             injectedKey(NAME, "Manifest"), StrV(r.value))]

\* annotateAppWithService(startupApp, serviceDefinition, providerVersion)
annotateAppWithService(st, i, providerVersion, NAME, d, env) ==
    IF providerVersion \in {<<"default">>, <<"stable">>}
    THEN [st EXCEPT !.doc.app = annotated(@, st.doc.services.list[i], NAME)]
    ELSE setInjectedManifest(st, i, NAME,
                             getProviderUrl(providerVersion, st.doc.services.list[i].manifestUrl,
                                            st.urlCache, st.memo, d, env, st.templateCache))

\* if (config.services.length === 1) { delete config.services; }
\* else { config.services = config.services.filter((service) => service.name !== NAME); }
removeService(st, NAME) ==
    IF st.err # "none" THEN st
    ELSE IF Len(st.doc.services.list) = 1
    THEN [st EXCEPT !.doc.services = NoServices]
    ELSE [st EXCEPT !.doc.services =
             Services(SelectSeq(st.doc.services.list, LAMBDA service : StrV(service.name) # NAME))]

\* serviceDefinition.manifestUrl = getProviderUrl(...) has run (r)
setManifestUrl(st, i, r) ==
    IF r.err # "none" THEN resolved(st, r)
    ELSE [resolved(st, r) EXCEPT !.doc.services.list[i].manifestUrl = Arg(r.value)]

\* if (serviceDefinition) { if (asar) {...} else {...} }
rewriteService(st, asar, providerVersion, NAME, d, env) ==
    IF st.err # "none" \/ serviceDefinition(st.doc, NAME) = 0
    THEN st
    ELSE IF ~asar
    THEN setManifestUrl(st, serviceDefinition(st.doc, NAME),
                        getProviderUrl(providerVersion,
                                       st.doc.services.list[serviceDefinition(st.doc, NAME)].manifestUrl,
                                       st.urlCache, st.memo, d, env, st.templateCache))
    ELSE IF ~Truthy(Get(st.memo.m, "RUNTIME_INJECTABLE"))
    THEN [st EXCEPT !.err = "NotInjectable"]
    ELSE removeService(annotateAppWithService(st, serviceDefinition(st.doc, NAME),
                                              providerVersion, NAME, d, env),
                       NAME)

\* an assignment of a whole runtime object: config.runtime = {version}
setRuntimeObject(st, runtimeVersion) ==
    IF st.err # "none" THEN st
    ELSE [st EXCEPT !.doc.runtimeVersion = runtimeVersion, !.doc.runtimeArguments = <<>>]

\* if (runtimeVersion) { config.runtime.version = runtimeVersion; }
setRuntimeVersion(st, runtimeVersion) ==
    IF st.err # "none" \/ runtimeVersion = <<>> THEN st
    ELSE [st EXCEPT !.doc.runtimeVersion = runtimeVersion]

\* getManifest from `if (startupApp.url)` to its return
rewriteManifest(st, configPath, context, args, runtimeVersion, d, env) ==
    setRuntimeVersion(rewriteService(rewriteUrls(st, configPath, context, d, env),
                                     args.asar, args.providerVersion,
                                     Get(st.memo.m, "NAME"), d, env),
                      runtimeVersion)

\* runtimeVersion = mapRuntimeVersion(runtimeVersion) has run (r)
rewriteMapped(st, configPath, context, args, r, d, env) ==
    IF r.err # "none" THEN [st EXCEPT !.err = r.err]
    ELSE rewriteManifest(st, configPath, context, args, r.value, d, env)

\* getManifest after `await resolveRuntimeVersion(runtimeVersion)`, which has
\* settled as `version`
afterResolve(st, configPath, context, args, version, d, env) ==
    IF version.st = "rejected"
    THEN [st EXCEPT !.err = version.v[1]]
    ELSE IF args.runtime # <<>> \/ version.v = getProviderRuntime
    THEN rewriteMapped(st, configPath, context, args,
                       mapWithConfig(version.v, [err |-> "none", memo |-> st.memo]), d, env)
    ELSE rewriteManifest(st, configPath, context, args, version.v, d, env)

\* a load that lets a document with no startup_app through
loadManifestUnchecked(file, cfg, tc, uc) ==
    IF cfg.err # "none"
    THEN Rewriting(cfg.err, NoStartupApp, cfg.memo, tc, uc)
    ELSE IF ~getJsonFileSync(file).given
    THEN Rewriting("NotAppManifest", NoStartupApp, cfg.memo, tc, uc)
    ELSE Rewriting("none", getJsonFileSync(file).doc, cfg.memo, tc, uc)

\* const {...} = getProjectConfig() has run (cfg);
\* const config = getJsonFileSync(...); if (!config || !config.startup_app) throw
loadManifest(file, cfg, tc, uc) ==
    IF cfg.err # "none"
    THEN Rewriting(cfg.err, NoStartupApp, cfg.memo, tc, uc)
    ELSE IF ~getJsonFileSync(file).given \/ ~getJsonFileSync(file).doc.startup_app
    THEN Rewriting("NotAppManifest", NoStartupApp, cfg.memo, tc, uc)
    ELSE Rewriting("none", getJsonFileSync(file).doc, cfg.memo, tc, uc)

\* A getManifest call: where it is (pc), the resolveRuntimeVersion call it
\* awaits, and the rewrite so far
ManifestCall(pc, resolve, st) == [pc |-> pc, resolve |-> resolve, st |-> st]

\* resolveRuntimeVersion(runtimeVersion) has run up to its first await (rr)
awaitResolve(st, configPath, context, args, rr, d, env) ==
    IF rr.call.pc = "returned"
    THEN ManifestCall("returned", rr.call,
                      afterResolve([st EXCEPT !.memo = rr.memo], configPath, context, args,
                                   rr.call.result, d, env))
    ELSE ManifestCall("awaiting", rr.call, [st EXCEPT !.memo = rr.memo])

\* getManifest once the manifest has been loaded and checked (st)
getManifestLoaded(st, configPath, context, args, mappings, d, env) ==
    IF st.err # "none"
    THEN ManifestCall("returned", IdleCall, st)
    ELSE IF ~args.asar
    THEN ManifestCall("returned", IdleCall,
                      rewriteManifest(st, configPath, context, args, args.runtime, d, env))
    ELSE awaitResolve(st, configPath, context, args,
                      resolveRuntimeVersion(IF args.runtime # <<>> THEN args.runtime
                                            ELSE st.doc.runtimeVersion,
                                            mappings, st.memo, d, env),
                      d, env)

\* getManifest(configPath, context, args) up to its await or to its return
getManifest(configPath, context, args, file, mappings, memo, d, env, tc, uc) ==
    getManifestLoaded(loadManifest(file, getProjectConfig(memo, d, env), tc, uc),
                      configPath, context, args, mappings, d, env)

\* The earlier getManifest(configPath, context, providerVersion, runtimeVersion):
\* if (serviceDefinition && providerVersion !== 'default') { ... }, with the
\* getProviderUrl of utils/getProviderUrl.ts
rewriteServiceV0(st, providerVersion, NAME, d, env) ==
    IF st.err # "none" \/ serviceDefinition(st.doc, NAME) = 0 \/ providerVersion = <<"default">>
    THEN st
    ELSE setManifestUrl(st, serviceDefinition(st.doc, NAME),
                        getProviderUrlV0(providerVersion,
                                         st.doc.services.list[serviceDefinition(st.doc, NAME)].manifestUrl,
                                         st.urlCache, st.memo, d, env, st.templateCache))

getManifestLoadedV0(st, configPath, context, args, d, env) ==
    IF st.err # "none" THEN st
    ELSE setRuntimeVersion(rewriteServiceV0(rewriteUrls(st, configPath, context, d, env),
                                            args.providerVersion, Get(st.memo.m, "NAME"),
                                            d, env),
                           args.runtime)

getManifestV0(configPath, context, args, file, memo, d, env, tc, uc) ==
    ManifestCall("returned", IdleCall,
                 getManifestLoadedV0(loadManifest(file, getProjectConfig(memo, d, env), tc, uc),
                                     configPath, context, args, d, env))

\* The *.json middleware (server/middleware.ts)

\* What a request came to: the calls of next(), the responses sent, whether
\* an error left the handler (the promise the async handler returns rejected),
\* and the manifest sent, if any
Handled(nextCalls, responses, escaped) ==
    [handled |-> TRUE, nextCalls |-> nextCalls, responses |-> responses,
     escaped |-> escaped, body |-> NoStartupApp]

\* res.send(JSON.stringify(config, null, 4))
Sent(config) == [Handled(0, 1, FALSE) EXCEPT !.body = config]

\* if (configPath.indexOf('/provider/') && config.startup_app?.autoShow === false)
\*     config.startup_app.autoShow = true;
\* a number is truthy unless it is 0
ensureVisible(configPath, config) ==
    IF indexOf(configPath, <<"/", "provider", "/">>) # 0 /\ config.autoShow = BoolV(FALSE)
    THEN [config EXCEPT !.autoShow = BoolV(TRUE)]
    ELSE config

\* a handler whose catch block calls next() and does not return: it goes on to
\* read config.startup_app of the manifest it never got
createAppJsonMiddlewareNoReturn(configPath, r) ==
    IF r.st.err # "none" THEN Handled(1, 0, TRUE)
    ELSE Sent(ensureVisible(configPath, r.st.doc))

\* the handler createAppJsonMiddleware(providerVersion, runtimeVersion) returns,
\* once its getManifest call has returned or thrown (r):
\* catch (e) { next(); return; } ... res.header(...); res.send(...)
createAppJsonMiddleware(configPath, r) ==
    IF r.st.err # "none" THEN Handled(1, 0, FALSE)
    ELSE Sent(ensureVisible(configPath, r.st.doc))

\* ------------------------------------------------------------------------
\* The /manifest route (createCustomManifestMiddleware)

\* getJsonFile(path): a promise of the document, rejected when the file is
\* absent or does not parse
getJsonFile(file) ==
    IF file.kind = "json" THEN [given |-> TRUE, doc |-> file.m]
    ELSE [given |-> FALSE, doc |-> NoStartupApp]

\* req.query: the parameters the handler reads to build the services list,
\* each absent or a string
NoQuery == [useService |-> NoArg, provider |-> NoArg, config |-> NoArg]

\* the service declaration of the manifest sent: none, or
\* {name: NAME, manifestUrl?, config?}
NoService == [given |-> FALSE, manifestUrl |-> NoArg, config |-> Undefined]

\* provider: 'local', ...query
providerOf(query) == IF query.provider.given THEN query.provider.s ELSE <<"local">>

\* config: null, ...query, tested for truth
configGiven(query) == query.config.given /\ query.config.s # <<>>

\* What the handler came to: the request's outcome and the service declared,
\* with the module state it leaves
Answered(result, service, memo, uc, tc) ==
    [result |-> result, service |-> service, memo |-> memo, urlCache |-> uc,
     templateCache |-> tc]

\* if (config) { service.config = JSON.parse(config) } manifest.services = [service];
\* res.header(...); res.send(...): an error thrown in the async handler
\* rejects the promise it returned, which nothing handles
parseConfig(query, manifestUrl, memo, uc, tc) ==
    IF configGiven(query) /\ ~jsonParses(query.config.s)
    THEN Answered(Handled(0, 0, TRUE), NoService, memo, uc, tc)
    ELSE Answered(Handled(0, 1, FALSE),
                  [given |-> TRUE, manifestUrl |-> manifestUrl,
                   config |-> IF configGiven(query) THEN jsonParse(query.config.s)
                              ELSE Undefined],
                  memo, uc, tc)

\* if (provider !== 'default') { service.manifestUrl = getProviderUrl(provider) },
\* where u is what that call comes to
setManifestUrlOf(query, u, memo, uc, tc) ==
    IF providerOf(query) = <<"default">>
    THEN parseConfig(query, NoArg, memo, uc, tc)
    ELSE IF u.err # "none"
    THEN Answered(Handled(0, 0, TRUE), NoService, u.memo, u.urlCache, u.templateCache)
    ELSE parseConfig(query, Arg(u.value), u.memo, u.urlCache, u.templateCache)

\* the handler of createCustomManifestMiddleware() once
\* `await getJsonFile(...).catch(next)` has settled as defaultConfig:
\* if (!defaultConfig) return; ... if (useService) { ... } res.send(...)
customManifestHandler(query, defaultConfig, u, memo, uc, tc) ==
    IF ~defaultConfig.given
    THEN Answered(Handled(1, 0, FALSE), NoService, memo, uc, tc)
    ELSE IF query.useService = Arg(<<"false">>)
    THEN Answered(Handled(0, 1, FALSE), NoService, memo, uc, tc)
    ELSE setManifestUrlOf(query, u, memo, uc, tc)

\* ------------------------------------------------------------------------

\* The start command (index.ts: startCommandProcess; server/server.ts)

\* the steps of startCommandProcess, in the order of its statements
START_STEPS ==
    <<"createServer", "hook", "createDefaultMiddleware", "startServer", "prepareRuntime",
      "startApplication">>

\* The process of the start command: the step startCommandProcess is at (pc),
\* the steps called so far (ran) and those that failed, and where the
\* application that startApplication launches is (app).
NoProcess ==
    [pc |-> "idle", ran |-> <<>>, failed |-> {}, demo |-> FALSE, darwin |-> FALSE,
     listening |-> FALSE, prepared |-> FALSE, app |-> "none", providerLaunched |-> FALSE,
     launched |-> FALSE, watched |-> "none", listener |-> FALSE, watchedClosed |-> FALSE,
     exited |-> FALSE, exitCode |-> 0]

\* the process after a step, with the module state the step leaves
Stepped(p, memo, uc, tc) == [p |-> p, memo |-> memo, urlCache |-> uc, templateCache |-> tc]

\* a step called without await: the next statement runs whatever becomes of it
calledUnawaited(p, ok, next) ==
    [p EXCEPT !.pc = next, !.ran = Append(@, next),
              !.failed = IF ok THEN @ ELSE @ \cup {p.pc}]

\* await step(...): the next statement runs when the step's promise is
\* fulfilled; a rejection is thrown out of startCommandProcess
awaited(p, ok, next) ==
    IF ok
    THEN [p EXCEPT !.pc = next, !.ran = Append(@, next)]
    ELSE [p EXCEPT !.pc = "rejected", !.failed = @ \cup {p.pc}]

\* startServer(app): const {PORT} = getProjectConfig(); return app.listen(PORT)
startServer(p, cfg, uc, tc) ==
    IF cfg.err # "none"
    THEN Stepped([p EXCEPT !.pc = "rejected", !.failed = @ \cup {"startServer"}],
                 cfg.memo, uc, tc)
    ELSE Stepped([p EXCEPT !.listening = TRUE], cfg.memo, uc, tc)

\* startAppAndWait(manifestUrl, exitManifestUrl) up to its await of
\* getManifest(exitManifestUrl); watched names the application of exitManifestUrl
startAppAndWait(p, watched, cfg, uc, tc) ==
    IF cfg.err # "none"
    THEN Stepped([p EXCEPT !.app = "failed"], cfg.memo, uc, tc)
    ELSE Stepped([p EXCEPT !.app = "manifest", !.watched = watched], cfg.memo, uc, tc)

\* if (IS_SERVICE && !args.asar) startAppAndWait(manifestUrl, getProviderUrl(...))
\* else startAppAndWait(manifestUrl); r is what getStartupManifest() returned
watchProviderOrApp(p, a, r, uc, d, env) ==
    IF r.err # "none"
    THEN Stepped([p EXCEPT !.app = "failed"], r.memo, uc, r.templateCache)
    ELSE IF Truthy(Get(r.memo.m, "IS_SERVICE")) /\ ~a.asar
    THEN LET u == getProviderUrl(a.providerVersion, NoArg, uc, r.memo, d, env,
                                 r.templateCache)
         IN  IF u.err # "none"
             THEN Stepped([p EXCEPT !.app = "failed"], u.memo, u.urlCache, u.templateCache)
             ELSE startAppAndWait(p, "provider", getProjectConfig(u.memo, d, env),
                                  u.urlCache, u.templateCache)
    ELSE startAppAndWait(p, "app", getProjectConfig(r.memo, d, env), uc, r.templateCache)

\* getStartupManifest(): const manifest = MANIFEST && replaceUrlParams(MANIFEST);
\* the URL it returns is always one of the application started
getStartupManifest(cfg, d, env, tc) ==
    IF cfg.err # "none"
    THEN Templated(cfg.err, <<>>, cfg.memo, tc)
    ELSE IF Truthy(Get(cfg.memo.m, "MANIFEST"))
    THEN replaceUrlParams(Get(cfg.memo.m, "MANIFEST").s, <<>>, cfg.memo, d, env, tc)
    ELSE Templated("none", <<>>, cfg.memo, tc)

\* startApplication from `if (args.demo)` on
launchDemo(p, a, memo, uc, tc, d, env) ==
    IF ~p.demo
    THEN Stepped([p EXCEPT !.app = "idle"], memo, uc, tc)
    ELSE watchProviderOrApp(p, a, getStartupManifest(getProjectConfig(memo, d, env), d, env, tc),
                            uc, d, env)

\* startApplication with the provider URL resolved (u), on Mac OS:
\* if (manifestUrl) await launch({manifestUrl}).catch(console.log)
launchProvider(p, a, u, d, env) ==
    IF u.err # "none"
    THEN Stepped([p EXCEPT !.app = "failed"], u.memo, u.urlCache, u.templateCache)
    ELSE IF u.value # <<>>
    THEN Stepped([p EXCEPT !.app = "launchProvider"], u.memo, u.urlCache, u.templateCache)
    ELSE launchDemo(p, a, u.memo, u.urlCache, u.templateCache, d, env)

\* startApplication(args), up to its first await or to its return
startApplication(p, a, cfg, uc, tc, d, env) ==
    IF cfg.err # "none"
    THEN Stepped([p EXCEPT !.app = "failed"], cfg.memo, uc, tc)
    ELSE IF Truthy(Get(cfg.memo.m, "IS_SERVICE")) /\ p.darwin
    THEN launchProvider(p, a, getProviderUrl(a.providerVersion, NoArg, uc, cfg.memo, d, env, tc),
                        d, env)
    ELSE launchDemo(p, a, cfg.memo, uc, tc, d, env)

\* ------------------------------------------------------------------------
\* The inputs of the model

NoFiles ==
    [service |-> "absent", project |-> "absent", userService |-> "absent",
     userProject |-> "absent", demoProvider |-> FALSE, testProvider |-> FALSE]

\* the project directories a behaviour may start from
ProjectDisks ==
    {[NoFiles EXCEPT !.service = "templated"],
     [NoFiles EXCEPT !.project = "plain", !.userProject = "user"],
     [NoFiles EXCEPT !.service = "noport"]}

\* version tokens handed to getProviderUrl
TOKEN_URL == <<"https", ":", "/", "/", "host", "/", "app", ".", "json">>
TOKEN_URL_TEMPLATE == <<"https", ":", "/", "/", "host", "/", "${", "VERSION", "}", "/">>
TOKEN_SEMVER == <<"2", ".", "3", ".", "4">>
TOKEN_INVALID == <<"not", "-", "a", "-", "version">>
TOKEN_NO_SCHEME == <<":", "/", "/", "host">>

VersionTokens ==
    {<<"local">>, <<"stable">>, <<"staging">>, <<"testing">>, TOKEN_URL,
     TOKEN_URL_TEMPLATE, TOKEN_SEMVER, TOKEN_INVALID, TOKEN_NO_SCHEME}

\* manifestUrl arguments: absent, with a query string, a bare query string,
\* and without one
ManifestUrls ==
    {NoArg,
     Arg(<<"https", ":", "/", "/", "cdn", "/", "app", ".", "json", "?", "foo", "=", "bar">>),
     Arg(<<"?", "foo", "=", "bar">>),
     Arg(<<"https", ":", "/", "/", "cdn", "/", "app", ".", "json">>)}

\* the project directories getProjectConfig may be called in
ConfigDisks ==
    {[NoFiles EXCEPT !.service = sf, !.project = pf, !.userService = us, !.userProject = up] :
        sf \in {"absent", "bad", "templated", "noport"}, pf \in {"absent", "plain"},
        us \in {"absent", "bad", "user"}, up \in {"absent", "user"}}

\* process.env: the variables that name a configuration key
Envs ==
    {<<>>,
     <<[k |-> "PORT", v |-> StrV(<<"9", "0", "0", "2">>)]>>,
     <<[k |-> "PORT", v |-> StrV(<<"abc">>)]>>,
     <<[k |-> "RUNTIME_INJECTABLE", v |-> StrV(<<"FALSE">>)]>>}

\* process.env with one variable that names a key of ConfigTyped
EnvKeys == {"NAME", "PORT", "RUNTIME_INJECTABLE", "MANIFEST", "OPTIONS"}

EnvValues ==
    {<<"true">>, <<"TRUE">>, <<"False">>, <<"yes">>, <<"9", "0", "0", "2">>,
     <<"1", "2", "abc">>, <<"abc">>, <<"null">>, <<"undefined">>, <<"{", "}">>}

TypedEnvs == {<<>>} \cup {<<[k |-> key, v |-> StrV(value)]>> : key \in EnvKeys, value \in EnvValues}

\* the build numbers the runtime adapter may report
BUILD_A == <<"6", ".", "5", "5", ".", "1", "0", ".", "1", "2">>
BUILD_B == <<"6", ".", "5", "6", ".", "0", ".", "1">>
Builds == {BUILD_A, BUILD_B}

\* a version whose first component is the PORT of the configuration files
MAPPED_A == <<"9", "0", "0", "0", ".", "5", "5", ".", "1", "0", ".", "1", "2">>

\* runtime versions handed to mapRuntimeVersion
MapVersions == Builds \cup {MAPPED_A}

\* runtime versions handed to resolveRuntimeVersion
RuntimeVersions == {<<"stable">>, <<"STABLE">>, <<"stable", "-", "v", "9">>, BUILD_A}

\* what an installRuntime call may settle as
InstallOutcomes == {Fulfilled(b) : b \in Builds} \cup {Rejected("AdapterError")}

\* what the promises handed to and returned inside withTimeout may settle as
ActionOutcomes == {Fulfilled(<<"action">>), Rejected("ActionError")}
TimeoutActionOutcomes == {Fulfilled(<<"fallback">>), Rejected("FallbackError")}

\* command-line arguments of a process: the provider version, --asar, and the
\* runtime version override
DefaultArgs == [providerVersion |-> <<"default">>, asar |-> FALSE, runtime |-> <<>>]

CLIArguments ==
    {[providerVersion |-> pv, asar |-> a, runtime |-> rt] :
        pv \in {<<"default">>, TOKEN_SEMVER, TOKEN_INVALID}, a \in BOOLEAN,
        rt \in {<<>>, <<"stable">>}}

\* URLs found in manifests: under the CDN location of either configuration,
\* elsewhere, elsewhere with the CDN location inside, and a directory
URL_CDN == CDN_TEMPLATE \o <<"/", "demo", "/", "index", ".", "html">>
ICON_CDN == CDN_PLAIN \o <<"/", "icon", ".", "png">>
ICON_OTHER == <<"https", ":", "/", "/", "other", "/", "icon", ".", "png">>
ICON_PROXIED == <<"https", ":", "/", "/", "proxy", "/", "?", "u", "=">> \o ICON_CDN
URL_DIRECTORY == <<"https", ":", "/", "/", "other", "/", "dir", "/">>

\* service declarations: the project's own (NAME is "layouts"), with and without
\* a config and a manifestUrl, and another service
OWN_SERVICE ==
    ServiceDeclaration(<<"layouts">>,
                       Arg(<<"https", ":", "/", "/", "cdn", "/", "app", ".", "json", "?",
                             "foo", "=", "bar">>),
                       StrV(<<"opaque">>))
OWN_SERVICE_BARE == ServiceDeclaration(<<"layouts">>, NoArg, Undefined)
OTHER_SERVICE == ServiceDeclaration(<<"notifications">>, NoArg, Undefined)

ServiceLists ==
    {NoServices, Services(<<OWN_SERVICE>>), Services(<<OWN_SERVICE, OTHER_SERVICE>>),
     Services(<<OWN_SERVICE_BARE, OWN_SERVICE>>), Services(<<OTHER_SERVICE>>)}

\* the manifest files under res/, with autoShow false, true and absent
ManifestFiles ==
    {AbsentFile, BadFile, JsonFile(NoStartupApp)}
    \cup {JsonFile([ClassicManifest(Arg(URL_CDN), Arg(ICON_CDN), TRUE, Arg(ICON_OTHER),
                                    services, <<"stable">>)
                        EXCEPT !.autoShow = BoolV(FALSE)]) : services \in ServiceLists}
    \cup {JsonFile([ClassicManifest(Arg(URL_DIRECTORY), Arg(ICON_PROXIED), FALSE, NoArg,
                                    services, BUILD_A)
                        EXCEPT !.autoShow = BoolV(TRUE)]) : services \in ServiceLists}
    \cup {JsonFile(ClassicManifest(Arg(<<>>), NoArg, TRUE, Arg(ICON_PROXIED),
                                   services, BUILD_B)) : services \in ServiceLists}

\* paths of manifests, relative to res/
ConfigPaths == {<<"demo", "/", "app", ".", "json">>, <<"app", ".", "json">>}

\* req.params[0] of the requests the *.json middleware handles: the demo
\* manifest and the provider manifest of a service project
RequestPaths == {<<"demo", "/", "app", ".", "json">>, <<"provider", "/", "app", ".", "json">>}

RewriteContext == {"DEBUG", "DEPLOY"}

\* strings handed to replaceUrlParams: a plain URL that ends with a slash, and
\* templates of a required key, of an optional key, and one with a syntax error
UrlTemplates ==
    {URL_DIRECTORY, TOKEN_URL_TEMPLATE,
     <<"http", ":", "/", "/", "localhost", ":", "${", "PORT", "}", "/", "/">>,
     <<"https", ":", "/", "/", "host", "/", "${", "RUNTIME_INJECTABLE", "}">>,
     <<"https", ":", "/", "/", "host", "/", "${", "VERSION">>}

\* overrideArgs: none, a key every configuration has, and an optional key
OverrideArgs ==
    {<<>>,
     <<[k |-> "VERSION", v |-> StrV(<<>>)]>>,
     <<[k |-> "RUNTIME_INJECTABLE", v |-> BoolV(TRUE)]>>}

\* ------------------------------------------------------------------------
\* State

VARIABLES
    config,         \* getProjectConfig.ts: let config
    disk,           \* the files of the project directory
    env,            \* process.env
    templateCache,  \* url.ts: const templateCache
    urlCache,       \* manifest.ts: const urlCache
    urlCacheV0,     \* getProviderUrl.ts: const urlCache
    call,           \* the last getProviderUrl call and what it returned
    nCalls,
    nEdits,
    load,           \* the last getProjectConfig call and what it returned
    nLoads,
    releaseChannelMappings, \* runtime.ts: const releaseChannelMappings
    resolves,       \* the resolveRuntimeVersion calls, by call number
    adapterCalls,   \* connect(...) calls made by installRuntime
    mapCall,        \* the last mapRuntimeVersion call and what it returned
    nMaps,
    wt,             \* the last withTimeout call
    nTimeouts,
    args,           \* the command-line arguments of the process
    manifestFile,   \* the manifest file under res/ that requests name
    manifestCall,   \* the last getManifest call and what it returned
    nManifests,
    request,        \* the last request the *.json middleware handled
    urlCall,        \* the last replaceUrlParams call and what it returned
    nUrlCalls,
    proc,           \* the process of the start command
    machine,        \* os.platform() and the directories that exist
    rtCall,         \* the last installRuntime or isRuntimeInstalled call
    nInstalls,
    prep,           \* the prepareRuntime call of the process
    custom          \* the last request the /manifest route handled

cfgVars == <<config, disk, env, nEdits, load, nLoads>>
urlVars == <<templateCache, urlCache, urlCacheV0, call, nCalls>>
rtVars == <<releaseChannelMappings, resolves, adapterCalls, mapCall, nMaps>>
toVars == <<wt, nTimeouts>>
cmdVars == <<proc, machine, rtCall, nInstalls, prep, custom>>
mfVars == <<args, manifestFile, manifestCall, nManifests, request, urlCall, nUrlCalls, cmdVars>>
vars == <<cfgVars, urlVars, rtVars, toVars, mfVars>>

EmptyMap == [t \in {} |-> <<>>]

NoCall ==
    [fn |-> "none", version |-> <<>>, manifestUrl |-> NoArg, err |-> "none",
     value |-> <<>>, fsChecks |-> 0, cacheHit |-> FALSE, wrote |-> FALSE,
     repeat |-> FALSE, prevErr |-> "none", prevValue |-> <<>>, afterQuery |-> FALSE]

\* the record of a call: what it was given, what it returned (r), whether it
\* changed the resolver's cache, and, when the call before it had the same
\* function and arguments, what that one returned; afterQuery says that the
\* call before it had the same function and token, was given a manifestUrl
\* with a query string, and returned
CallRecord(fn, version, manifestUrl, r, wrote) ==
    LET repeat == call.fn = fn /\ call.version = version /\ call.manifestUrl = manifestUrl
    IN  [fn |-> fn, version |-> version, manifestUrl |-> manifestUrl, err |-> r.err,
         value |-> r.value, fsChecks |-> r.fsChecks, cacheHit |-> r.cacheHit,
         wrote |-> wrote, repeat |-> repeat,
         prevErr |-> IF repeat THEN call.err ELSE "none",
         prevValue |-> IF repeat THEN call.value ELSE <<>>,
         afterQuery |-> /\ call.fn = fn
                        /\ call.version = version
                        /\ call.err = "none"
                        /\ queryOf(call.manifestUrl) # <<>>]

NoLoad == [called |-> FALSE, err |-> "none", memoBefore |-> UnsetConfig]

Calls == 1..MaxResolves

NoMapCall == [called |-> FALSE, input |-> <<>>, err |-> "none", value |-> <<>>,
              PORT |-> <<>>, ofMapped |-> FALSE]

NoTimeout == [called |-> FALSE, w |-> NotWaiting]

\* every module freshly loaded, nothing called yet
FreshUrl ==
    /\ templateCache = EmptyMap
    /\ urlCache = EmptyMap
    /\ urlCacheV0 = EmptyMap
    /\ call = NoCall
    /\ nCalls = 0

FreshConfig ==
    /\ config = UnsetConfig
    /\ nEdits = 0
    /\ load = NoLoad
    /\ nLoads = 0

FreshRuntime ==
    /\ releaseChannelMappings = EmptyMap
    /\ resolves = [c \in Calls |-> IdleCall]
    /\ adapterCalls = 0
    /\ mapCall = NoMapCall
    /\ nMaps = 0

FreshTimeout ==
    /\ wt = NoTimeout
    /\ nTimeouts = 0

NoManifestCall ==
    [called |-> FALSE, fn |-> "none", configPath |-> <<>>, context |-> "DEBUG",
     pc |-> "idle", resolve |-> IdleCall, err |-> "none", doc |-> NoStartupApp]

NoRequest ==
    [handled |-> FALSE, nextCalls |-> 0, responses |-> 0, escaped |-> FALSE,
     body |-> NoStartupApp]

\* The /manifest route: whether the middleware was created, the query of the
\* request it is handling or handled last, and what the request came to
NoCustom == [pc |-> "idle", query |-> NoQuery, result |-> NoRequest, service |-> NoService]

NoUrlCall ==
    [called |-> FALSE, urlTemplate |-> <<>>, overrideArgs |-> <<>>, err |-> "none",
     value |-> <<>>, uncachedErr |-> "none", uncachedValue |-> <<>>]

\* a machine of which nothing is read
NoMachine == [platform |-> "win32", dirs |-> {}, asars |-> {}]

NoRtCall ==
    [fn |-> "none", version |-> <<>>, action |-> Pending, contacted |-> FALSE,
     ofMapped |-> FALSE, PORT |-> <<>>, err |-> "none", value |-> FALSE,
     dirKnown |-> FALSE]

\* no manifest served, no request handled, no template evaluated yet
FreshCalls ==
    /\ manifestCall = NoManifestCall
    /\ nManifests = 0
    /\ request = NoRequest
    /\ urlCall = NoUrlCall
    /\ nUrlCalls = 0
    /\ proc = NoProcess
    /\ machine = NoMachine
    /\ rtCall = NoRtCall
    /\ nInstalls = 0
    /\ prep = NoPrep
    /\ custom = NoCustom

FreshManifest ==
    /\ args = DefaultArgs
    /\ manifestFile = AbsentFile
    /\ FreshCalls

Init ==
    /\ disk \in ProjectDisks
    /\ env = <<>>
    /\ FreshConfig
    /\ FreshUrl
    /\ FreshRuntime
    /\ FreshTimeout
    /\ FreshManifest

\* a call of getProviderUrl of utils/manifest.ts
GetProviderUrl ==
    /\ nCalls < MaxCalls
    /\ \E version \in VersionTokens, manifestUrl \in ManifestUrls :
        \E r \in {getProviderUrl(version, manifestUrl, urlCache, config, disk, env,
                                  templateCache)} :
            /\ urlCache' = r.urlCache
            /\ config' = r.memo
            /\ templateCache' = r.templateCache
            /\ call' = CallRecord("manifest", version, manifestUrl, r, r.urlCache # urlCache)
    /\ nCalls' = nCalls + 1
    /\ UNCHANGED <<mfVars, disk, env, nEdits, load, nLoads, urlCacheV0, rtVars, toVars>>

\* a call of getProviderUrl of utils/getProviderUrl.ts
GetProviderUrlV0 ==
    /\ nCalls < MaxCalls
    /\ \E version \in VersionTokens, manifestUrl \in ManifestUrls :
        \E r \in {getProviderUrlV0(version, manifestUrl, urlCacheV0, config, disk, env,
                                    templateCache)} :
            /\ urlCacheV0' = r.urlCache
            /\ config' = r.memo
            /\ templateCache' = r.templateCache
            /\ call' = CallRecord("getProviderUrl", version, manifestUrl, r,
                                  r.urlCache # urlCacheV0)
    /\ nCalls' = nCalls + 1
    /\ UNCHANGED <<mfVars, disk, env, nEdits, load, nLoads, urlCache, rtVars, toVars>>

\* The environment: a provider manifest is added to or removed from res/demo or
\* res/test, or the configuration file is put right.
EditDisk ==
    /\ nEdits < MaxEdits
    /\ \E d \in {[disk EXCEPT !.demoProvider = ~disk.demoProvider],
                 [disk EXCEPT !.testProvider = ~disk.testProvider],
                 [disk EXCEPT !.service = "templated", !.userService = "absent"]} :
        /\ d # disk
        /\ disk' = d
    /\ nEdits' = nEdits + 1
    /\ UNCHANGED <<mfVars, config, env, load, nLoads, urlVars, rtVars, toVars>>

Next == GetProviderUrl \/ EditDisk

Spec == Init /\ [][Next]_vars

NextV0 == GetProviderUrlV0 \/ EditDisk

SpecV0 == Init /\ [][NextV0]_vars

\* both resolvers loaded in one process, in a service project
InitBoth ==
    /\ disk = [NoFiles EXCEPT !.service = "templated"]
    /\ env = <<>>
    /\ FreshConfig
    /\ FreshUrl
    /\ FreshRuntime
    /\ FreshTimeout
    /\ FreshManifest

NextBoth == GetProviderUrl \/ GetProviderUrlV0 \/ EditDisk

SpecBoth == InitBoth /\ [][NextBoth]_vars

\* ------------------------------------------------------------------------
\* getProjectConfig called on its own

InitConfig ==
    /\ disk \in ConfigDisks
    /\ env \in Envs
    /\ FreshConfig
    /\ FreshUrl
    /\ FreshRuntime
    /\ FreshTimeout
    /\ FreshManifest

\* a call of getProjectConfig()
GetProjectConfig ==
    /\ nLoads < MaxLoads
    /\ \E r \in {getProjectConfig(config, disk, env)} :
        /\ config' = r.memo
        /\ load' = [called |-> TRUE, err |-> r.err, memoBefore |-> config]
    /\ nLoads' = nLoads + 1
    /\ UNCHANGED <<mfVars, disk, env, nEdits, urlVars, rtVars, toVars>>

NextConfig == GetProjectConfig \/ EditDisk

SpecConfig == InitConfig /\ [][NextConfig]_vars

\* getProjectConfig called under an environment that overrides one key, in a
\* service project or in a standalone project with a user file
InitEnv ==
    /\ disk \in {[NoFiles EXCEPT !.service = "typed"],
                 [NoFiles EXCEPT !.project = "typed", !.userProject = "user"]}
    /\ env \in TypedEnvs
    /\ FreshConfig
    /\ FreshUrl
    /\ FreshRuntime
    /\ FreshTimeout
    /\ FreshManifest

SpecEnv == InitEnv /\ [][NextConfig]_vars

\* ------------------------------------------------------------------------
\* The runtime version resolver at work

InitRuntime ==
    /\ disk \in {d \in ProjectDisks : d.service # "noport"}
    /\ env = <<>>
    /\ FreshConfig
    /\ FreshUrl
    /\ FreshRuntime
    /\ FreshTimeout
    /\ FreshManifest

\* resolveRuntimeVersion(version) is called, and runs up to its first await
\* or to its return.  Calls are numbered in the order they are made.
ResolveRuntimeVersion(c) ==
    /\ resolves[c].pc = "idle"
    /\ \A b \in Calls : b < c => resolves[b].pc # "idle"
    /\ \E version \in RuntimeVersions :
        \E r \in {resolveRuntimeVersion(version, releaseChannelMappings, config, disk, env)} :
            /\ resolves' =
                 [resolves EXCEPT ![c] =
                     [r.call EXCEPT
                         !.cachedAtStart = version \in DOMAIN releaseChannelMappings,
                         !.mappingAtStart =
                             IF version \in DOMAIN releaseChannelMappings
                             THEN releaseChannelMappings[version]
                             ELSE <<>>]]
            /\ config' = r.memo
            /\ adapterCalls' = adapterCalls + (IF r.call.contacted THEN 1 ELSE 0)
    /\ UNCHANGED <<mfVars, disk, env, nEdits, load, nLoads, urlVars, releaseChannelMappings,
                   mapCall, nMaps, toVars>>

\* the adapter connection of call c's installRuntime reports a build number
\* or fails; the call resumes after its await
InstallSettles(c) ==
    /\ resolves[c].pc = "awaiting"
    /\ resolves[c].w.action.st = "pending"
    /\ \E p \in InstallOutcomes :
        \E w \in {actionSettles(resolves[c].w, p)} :
            /\ resolves' = [resolves EXCEPT ![c] = resumeCall(resolves[c], w)]
            /\ releaseChannelMappings' = resumeMappings(resolves[c], w, releaseChannelMappings)
    /\ UNCHANGED <<mfVars, cfgVars, urlVars, adapterCalls, mapCall, nMaps, toVars>>

\* the 1500 ms timer of call c's withTimeout fires
TimeoutFires(c) ==
    /\ resolves[c].w.timer = "armed"
    /\ \E w \in {timerFires(resolves[c].w)} :
        /\ resolves' = [resolves EXCEPT ![c] = resumeCall(resolves[c], w)]
        /\ releaseChannelMappings' = resumeMappings(resolves[c], w, releaseChannelMappings)
    /\ UNCHANGED <<mfVars, cfgVars, urlVars, adapterCalls, mapCall, nMaps, toVars>>

\* a call of mapRuntimeVersion, on a build number or on the version the last
\* call returned
MapRuntimeVersion ==
    /\ nMaps < MaxMaps
    /\ \E version \in MapVersions
                     \cup {v \in {mapCall.value} : mapCall.called /\ mapCall.err = "none"} :
        \E r \in {mapWithConfig(version, getProjectConfig(config, disk, env))} :
            /\ config' = r.memo
            /\ mapCall' = [called |-> TRUE, input |-> version, err |-> r.err,
                           value |-> r.value,
                           PORT |-> IF r.err = "none" THEN ToStr(Get(r.memo.m, "PORT")) ELSE <<>>,
                           ofMapped |-> mapCall.called /\ mapCall.err = "none"
                                        /\ version = mapCall.value]
    /\ nMaps' = nMaps + 1
    /\ UNCHANGED <<mfVars, disk, env, nEdits, load, nLoads, urlVars, releaseChannelMappings,
                   resolves, adapterCalls, toVars>>

NextRuntime ==
    \/ \E c \in Calls : ResolveRuntimeVersion(c)
    \/ \E c \in Calls : InstallSettles(c)
    \/ \E c \in Calls : TimeoutFires(c)

SpecRuntime == InitRuntime /\ [][NextRuntime]_vars

\* mapRuntimeVersion called on its own
NextMap == MapRuntimeVersion \/ EditDisk

SpecMap == InitConfig /\ [][NextMap]_vars

\* ------------------------------------------------------------------------
\* withTimeout called on its own

\* withTimeout(action, timeoutMs, timeoutAction) is called with a promise that
\* is pending or settled already, and a timeoutAction that returns the action
\* or a promise of its own
WithTimeout ==
    /\ nTimeouts < MaxTimeouts
    /\ \E action \in {Pending} \cup ActionOutcomes, keepWaiting \in BOOLEAN :
        wt' = [called |-> TRUE, w |-> withTimeout(action, keepWaiting)]
    /\ nTimeouts' = nTimeouts + 1
    /\ UNCHANGED <<mfVars, cfgVars, urlVars, rtVars>>

\* the action settles
ActionSettles ==
    /\ wt.called
    /\ wt.w.action.st = "pending"
    /\ \E p \in ActionOutcomes : wt' = [wt EXCEPT !.w = actionSettles(wt.w, p)]
    /\ UNCHANGED <<mfVars, cfgVars, urlVars, rtVars, nTimeouts>>

\* timeoutMs have passed and the timer was not cleared
TimerFires ==
    /\ wt.called
    /\ wt.w.timer = "armed"
    /\ wt' = [wt EXCEPT !.w = timerFires(wt.w)]
    /\ UNCHANGED <<mfVars, cfgVars, urlVars, rtVars, nTimeouts>>

\* the promise a timeoutAction of its own returned settles
TimeoutActionSettles ==
    /\ wt.called
    /\ ~wt.w.keepWaiting
    /\ wt.w.fallback.st = "pending"
    /\ \E p \in TimeoutActionOutcomes : wt' = [wt EXCEPT !.w = timeoutActionSettles(wt.w, p)]
    /\ UNCHANGED <<mfVars, cfgVars, urlVars, rtVars, nTimeouts>>

NextTimeout == WithTimeout \/ ActionSettles \/ TimerFires \/ TimeoutActionSettles

SpecTimeout == Init /\ [][NextTimeout]_vars

\* ------------------------------------------------------------------------
\* The manifest rewriter at work

\* a process started with some command-line arguments, in a project directory
\* with some manifest under res/
InitManifest ==
    /\ disk \in ProjectDisks
    /\ env = <<>>
    /\ FreshConfig
    /\ FreshUrl
    /\ FreshRuntime
    /\ FreshTimeout
    /\ args \in CLIArguments
    /\ manifestFile \in ManifestFiles
    /\ FreshCalls

\* the record of a getManifest call (r)
ManifestRecord(fn, configPath, context, r) ==
    [called |-> TRUE, fn |-> fn, configPath |-> configPath, context |-> context,
     pc |-> r.pc, resolve |-> r.resolve, err |-> r.st.err, doc |-> r.st.doc]

\* getManifest(configPath, context, args) is called, and runs up to its await or
\* to its return
GetManifest ==
    /\ nManifests < MaxManifests
    /\ manifestCall.pc # "awaiting"
    /\ \E configPath \in ConfigPaths, context \in RewriteContext :
        \E r \in {getManifest(configPath, context, args, manifestFile,
                              releaseChannelMappings, config, disk, env, templateCache,
                              urlCache)} :
            /\ manifestCall' = ManifestRecord("getManifest", configPath, context, r)
            /\ config' = r.st.memo
            /\ templateCache' = r.st.templateCache
            /\ urlCache' = r.st.urlCache
            /\ adapterCalls' = adapterCalls + (IF r.resolve.contacted THEN 1 ELSE 0)
    /\ nManifests' = nManifests + 1
    /\ UNCHANGED <<disk, env, nEdits, load, nLoads, urlCacheV0, call, nCalls,
                   releaseChannelMappings, resolves, mapCall, nMaps, toVars, args,
                   manifestFile, request, urlCall, nUrlCalls, cmdVars>>

\* the earlier getManifest(configPath, context, providerVersion, runtimeVersion)
\* is called
GetManifestV0 ==
    /\ nManifests < MaxManifests
    /\ manifestCall.pc # "awaiting"
    /\ \E configPath \in ConfigPaths, context \in RewriteContext :
        \E r \in {getManifestV0(configPath, context, args, manifestFile, config, disk, env,
                                templateCache, urlCacheV0)} :
            /\ manifestCall' = ManifestRecord("getManifestV0", configPath, context, r)
            /\ config' = r.st.memo
            /\ templateCache' = r.st.templateCache
            /\ urlCacheV0' = r.st.urlCache
    /\ nManifests' = nManifests + 1
    /\ UNCHANGED <<disk, env, nEdits, load, nLoads, urlCache, call, nCalls, rtVars, toVars,
                   args, manifestFile, request, urlCall, nUrlCalls, cmdVars>>

\* the withTimeout that the awaited resolveRuntimeVersion waits for has become
\* w: resolveRuntimeVersion resumes, and getManifest after it
ManifestResumes(w) ==
    \E c \in {resumeCall(manifestCall.resolve, w)} :
        \E st \in {IF c.pc = "returned"
                   THEN afterResolve(Rewriting("none", manifestCall.doc, config,
                                               templateCache, urlCache),
                                     manifestCall.configPath, manifestCall.context, args,
                                     c.result, disk, env)
                   ELSE Rewriting("none", manifestCall.doc, config, templateCache,
                                  urlCache)} :
            /\ manifestCall' = [manifestCall EXCEPT !.pc = c.pc, !.resolve = c,
                                                    !.err = st.err, !.doc = st.doc]
            /\ releaseChannelMappings' =
                 resumeMappings(manifestCall.resolve, w, releaseChannelMappings)
            /\ config' = st.memo
            /\ templateCache' = st.templateCache
            /\ urlCache' = st.urlCache
            /\ UNCHANGED <<disk, env, nEdits, load, nLoads, urlCacheV0, call, nCalls,
                           resolves, adapterCalls, mapCall, nMaps, toVars, args,
                           manifestFile, nManifests, request, urlCall, nUrlCalls, cmdVars>>

\* the adapter connection reports a build number or fails
ManifestInstallSettles ==
    /\ manifestCall.pc = "awaiting"
    /\ manifestCall.resolve.w.action.st = "pending"
    /\ \E p \in InstallOutcomes : ManifestResumes(actionSettles(manifestCall.resolve.w, p))

\* the timer of the awaited withTimeout fires
ManifestTimeoutFires ==
    /\ manifestCall.pc = "awaiting"
    /\ manifestCall.resolve.w.timer = "armed"
    /\ ManifestResumes(timerFires(manifestCall.resolve.w))

NextManifest ==
    GetManifest \/ GetManifestV0 \/ ManifestInstallSettles \/ ManifestTimeoutFires

SpecManifest == InitManifest /\ [][NextManifest]_vars

\* ------------------------------------------------------------------------
\* The debug server

\* a request for a *.json path under res/ reaches the middleware
AppJsonMiddleware ==
    /\ nManifests < MaxManifests
    /\ \E configPath \in RequestPaths :
        \E r \in {getManifestV0(configPath, "DEBUG", args, manifestFile, config, disk, env,
                                templateCache, urlCacheV0)} :
            /\ manifestCall' = ManifestRecord("getManifestV0", configPath, "DEBUG", r)
            /\ request' = createAppJsonMiddleware(configPath, r)
            /\ config' = r.st.memo
            /\ templateCache' = r.st.templateCache
            /\ urlCacheV0' = r.st.urlCache
    /\ nManifests' = nManifests + 1
    /\ UNCHANGED <<disk, env, nEdits, load, nLoads, urlCache, call, nCalls, rtVars, toVars,
                   args, manifestFile, urlCall, nUrlCalls, cmdVars>>

\* the manifest under res/ is replaced by another file
EditManifest ==
    /\ nEdits < MaxEdits
    /\ \E file \in ManifestFiles :
        /\ file # manifestFile
        /\ manifestFile' = file
    /\ nEdits' = nEdits + 1
    /\ UNCHANGED <<config, disk, env, load, nLoads, urlVars, rtVars, toVars, args,
                   manifestCall, nManifests, request, urlCall, nUrlCalls, cmdVars>>

NextServer == AppJsonMiddleware \/ EditManifest

SpecServer == InitManifest /\ [][NextServer]_vars

\* ------------------------------------------------------------------------
\* replaceUrlParams called on its own

\* a call of replaceUrlParams(urlTemplate, overrideArgs), recorded with what
\* the same call returns in a process whose templateCache is empty
ReplaceUrlParams ==
    /\ nUrlCalls < MaxUrlCalls
    /\ \E urlTemplate \in UrlTemplates, overrideArgs \in OverrideArgs :
        \E r \in {replaceUrlParams(urlTemplate, overrideArgs, config, disk, env,
                                   templateCache)},
           u \in {replaceUrlParams(urlTemplate, overrideArgs, config, disk, env, EmptyMap)} :
            /\ urlCall' = [called |-> TRUE, urlTemplate |-> urlTemplate,
                           overrideArgs |-> overrideArgs, err |-> r.err, value |-> r.value,
                           uncachedErr |-> u.err, uncachedValue |-> u.value]
            /\ config' = r.memo
            /\ templateCache' = r.templateCache
    /\ nUrlCalls' = nUrlCalls + 1
    /\ UNCHANGED <<disk, env, nEdits, load, nLoads, urlCache, urlCacheV0, call, nCalls,
                   rtVars, toVars, args, manifestFile, manifestCall, nManifests, request, cmdVars>>

NextUrl == ReplaceUrlParams \/ EditDisk

SpecUrl == Init /\ [][NextUrl]_vars

\* ------------------------------------------------------------------------
\* Properties of the provider URL resolvers

LiteralChannels == {<<"local">>, <<"stable">>, <<"staging">>, <<"testing">>}

SCHEME_SEPARATOR == <<":", "/", "/">>

\* a token of the resolution table: a channel name, an absolute URL, a semver
SupportedToken(version) ==
    \/ version \in LiteralChannels
    \/ indexOf(version, SCHEME_SEPARATOR) > 0
    \/ semverTest(version)

\* the part of manifestUrl from its first '?' to its end, nothing when
\* manifestUrl is absent or has no '?'
QuerySuffix(manifestUrl) ==
    IF manifestUrl.given /\ indexOf(manifestUrl.s, <<"?">>) >= 0
    THEN substr(manifestUrl.s, indexOf(manifestUrl.s, <<"?">>))
    ELSE <<>>

\* C1: getProviderUrl is idempotent per token: when a call for a supported
\* token returned a URL, the next call with the same token and the same
\* manifestUrl returns the same URL, is a cache hit and makes no filesystem
\* existence check.
C1_IdempotentPerToken ==
    (/\ call.fn # "none"
     /\ call.repeat
     /\ call.prevErr = "none"
     /\ SupportedToken(call.version))
    => (/\ call.err = "none"
        /\ call.value = call.prevValue
        /\ call.cacheHit
        /\ call.fsChecks = 0)

\* C4: a call that returns, returns the URL resolved for the token followed
\* by the part of manifestUrl from its first '?' to its end, and by nothing
\* when manifestUrl is absent or has no '?'.
C4_QueryPreserved ==
    (call.fn = "manifest" /\ call.err = "none")
    => call.value = urlCache[call.version] \o QuerySuffix(call.manifestUrl)

\* CDN_LOCATION + '/app.json' evaluated as a template with VERSION bound to
\* the token, under the configuration now loaded
ReleaseUrl(version) ==
    replaceUrlParams(ToStr(Get(config.m, "CDN_LOCATION")) \o APP_JSON,
                     <<[k |-> "VERSION", v |-> StrV(version)]>>,
                     config, disk, env, EmptyMap).value

\* C5: for a token that matches \d+\.\d+\.\d+ and no earlier row of the table,
\* every call that returns, the first as well as the cached ones, returns
\* CDN_LOCATION + '/app.json' evaluated as a template with VERSION bound to
\* the token (followed by the query string the call preserves).
C5_SemverBindsVersion ==
    (/\ call.fn # "none"
     /\ call.err = "none"
     /\ call.version \notin LiteralChannels
     /\ indexOf(call.version, SCHEME_SEPARATOR) <= 0
     /\ semverTest(call.version))
    => call.value = ReleaseUrl(call.version) \o queryOf(call.manifestUrl)

\* the errors getProjectConfig throws
ConfigErrors ==
    {"ConfigNotFound", "ConfigParseError", "MissingProperties", "UserConfigParseError"}

C7_ContainsSchemeVerbatim ==
    (/\ call.fn # "none"
     /\ call.version \notin LiteralChannels
     /\ indexOf(call.version, SCHEME_SEPARATOR) >= 0
     /\ call.err \notin ConfigErrors)
    => (/\ call.err = "none"
        /\ call.value = call.version \o queryOf(call.manifestUrl))

\* the token evaluated as a URL template under the configuration now loaded
EvaluatedToken(version) ==
    replaceUrlParams(version, <<>>, config, disk, env, templateCache).value

\* C7, amended: a token that is no literal channel name is treated as an
\* absolute URL when '://' occurs in it after its first character: the call
\* fails only if the template cannot be evaluated, and it returns the token
\* evaluated as a URL template (utils/getProviderUrl.ts: the token itself on
\* the call that fills the cache), followed by the query string the call
\* preserves.  A token that starts with '://' is not an absolute URL: unless
\* it matches \d+\.\d+\.\d+ the call fails as for any invalid token.
C7_SchemeAfterStart ==
    (/\ call.fn # "none"
     /\ call.version \notin LiteralChannels
     /\ call.err \notin ConfigErrors)
    => (/\ indexOf(call.version, SCHEME_SEPARATOR) > 0
           => (/\ call.err \in {"none", "SyntaxError", "ReferenceError"}
               /\ call.err = "none"
                  => call.value =
                        (IF call.fn = "getProviderUrl" /\ ~call.cacheHit
                         THEN call.version
                         ELSE EvaluatedToken(call.version))
                        \o queryOf(call.manifestUrl))
        /\ (indexOf(call.version, SCHEME_SEPARATOR) = 0 /\ ~semverTest(call.version))
           => call.err = "NotValidVersion")

\* an absolute URL with a template parameter has been resolved by
\* utils/manifest.ts, and what was returned is not the token
C7_Witness ==
    /\ call.fn = "manifest"
    /\ call.version = TOKEN_URL_TEMPLATE
    /\ call.err = "none"
    /\ call.value # call.version \o queryOf(call.manifestUrl)
    /\ call.value = EvaluatedToken(call.version) \o queryOf(call.manifestUrl)

\* ------------------------------------------------------------------------
\* Properties of the configuration loader

\* C3: getProjectConfig memoizes only a successful load: a call that fails
\* leaves the memo unset, and a call that returns leaves a configuration
\* with every required key.
C3_FailedLoadLeavesMemoUnset ==
    load.called
    => (/\ load.err # "none" => ~config.set
        /\ load.err = "none" => (config.set /\ Len(missingProperties(config.m)) = 0))

\* ------------------------------------------------------------------------
\* Properties of the runtime version resolver

\* C2: once urlCache holds an entry for a version token, or
\* releaseChannelMappings one for a channel name, no step of any call,
\* in flight or later, changes or removes that entry.
C2_CacheStability ==
    [][/\ \A t \in DOMAIN urlCache :
            t \in DOMAIN urlCache' /\ urlCache'[t] = urlCache[t]
       /\ \A t \in DOMAIN releaseChannelMappings :
            /\ t \in DOMAIN releaseChannelMappings'
            /\ releaseChannelMappings'[t] = releaseChannelMappings[t]]_vars

\* C8: mapRuntimeVersion returns no version for an input whose leading
\* component equals the local server's port, and none for the result of a
\* previous mapRuntimeVersion call.
C8_MappedVersionRejected ==
    (mapCall.called /\ mapCall.err = "none")
    => (/\ ~mapCall.ofMapped
        /\ split(mapCall.input)[1] # mapCall.PORT)

\* C9: resolveRuntimeVersion calls the adapter only for a channel name that
\* releaseChannelMappings does not hold when the call is made: a literal
\* version is returned unchanged with no adapter call, and a channel that is
\* in releaseChannelMappings is answered from it with no adapter call.
C9_AdapterOnlyForUncachedChannel ==
    /\ \A c \in Calls :
        resolves[c].pc # "idle"
        => (/\ ~isReleaseChannel(resolves[c].version)
               => (/\ ~resolves[c].contacted
                   /\ resolves[c].result = Fulfilled(resolves[c].version))
            /\ resolves[c].cachedAtStart
               => (/\ ~resolves[c].contacted
                   /\ resolves[c].result = Fulfilled(resolves[c].mappingAtStart)))
    /\ adapterCalls = Cardinality({c \in Calls : resolves[c].contacted})

\* a channel has been resolved through the adapter once, and a later call
\* for it has been answered from releaseChannelMappings
C9_Witness ==
    /\ resolves[1].version = <<"stable">>
    /\ resolves[1].contacted
    /\ resolves[1].result.st = "fulfilled"
    /\ resolves[2].version = <<"stable">>
    /\ resolves[2].cachedAtStart
    /\ resolves[2].pc = "returned"
    /\ resolves[2].result = resolves[1].result
    /\ adapterCalls = 1

\* C11: with the keep-waiting fallback of resolveRuntimeVersion, the promise
\* withTimeout returns always equals the promise installRuntime returned,
\* whether or not the timer has fired: the call is awaiting exactly while
\* installRuntime is pending, it returns what installRuntime settled as, and
\* every entry of releaseChannelMappings is the build number some
\* installRuntime call for that channel was fulfilled with.
C11_KeepWaitingFollowsInstall ==
    /\ \A c \in Calls :
        resolves[c].w.timer # "none"
        => (/\ resolves[c].w.outer = resolves[c].w.action
            /\ (resolves[c].pc = "awaiting") = (resolves[c].w.action.st = "pending")
            /\ resolves[c].pc = "returned" => resolves[c].result = resolves[c].w.action)
    /\ \A t \in DOMAIN releaseChannelMappings :
        \E c \in Calls :
            /\ resolves[c].version = t
            /\ resolves[c].w.timer # "none"
            /\ resolves[c].w.action = Fulfilled(releaseChannelMappings[t])

\* the timer of a call fired while installRuntime was pending, installRuntime
\* was fulfilled afterwards, and the call returned its build number
C11_Witness ==
    /\ resolves[1].pc = "returned"
    /\ resolves[1].w.timer = "fired"
    /\ resolves[1].w.timeoutActionCalls = 1
    /\ ~resolves[1].w.inTime
    /\ resolves[1].result.st = "fulfilled"
    /\ resolves[1].version \in DOMAIN releaseChannelMappings

\* C12: resolveRuntimeVersion calls for the same channel that overlapped
\* (each called installRuntime, each was fulfilled) all return the same
\* build number, and that number is the one in releaseChannelMappings.
C12_BenignRace ==
    \A c, d \in Calls :
        (/\ resolves[c].pc = "returned"
         /\ resolves[d].pc = "returned"
         /\ resolves[c].version = resolves[d].version
         /\ resolves[c].contacted
         /\ resolves[d].contacted
         /\ resolves[c].result.st = "fulfilled"
         /\ resolves[d].result.st = "fulfilled")
        => (/\ resolves[c].result = resolves[d].result
            /\ releaseChannelMappings[resolves[c].version] = resolves[c].result.v)

\* ------------------------------------------------------------------------
\* Properties of withTimeout

\* C10: withTimeout settles with the result of action, and never invokes
\* timeoutAction, if action is fulfilled before the timer fires; if the timer
\* fires first, timeoutAction is invoked exactly once and the returned promise
\* settles with the result of timeoutAction.
C10_TimeoutContract ==
    wt.called
    => (/\ (wt.w.action.st = "fulfilled" /\ wt.w.inTime)
           => (wt.w.outer = wt.w.action /\ wt.w.timeoutActionCalls = 0)
        /\ (wt.w.timer = "fired" /\ ~wt.w.inTime)
           => (/\ wt.w.timeoutActionCalls = 1
               /\ wt.w.outer.st # "pending" => wt.w.outer = wt.w.fallback))

\* ------------------------------------------------------------------------
\* Properties of the manifest rewriter

BeginsWith(s, prefix) == Len(s) >= Len(prefix) /\ SubSeq(s, 1, Len(prefix)) = prefix

HasMarker(s) == \E i \in 1..Len(s) : s[i] = "${"

\* the fields of a manifest that hold URLs
UrlFields == {"url", "icon", "shortcutIcon"}

\* the URL fields the manifest on disk has: present and not empty, shortcut.icon
\* only in a manifest with a shortcut
RewritableFields ==
    {f \in UrlFields : /\ manifestFile.m[f].given
                       /\ manifestFile.m[f].s # <<>>
                       /\ f = "shortcutIcon" => manifestFile.m.shortcut}

\* a getManifest call in DEBUG context has returned a manifest
DebugManifestReturned ==
    /\ manifestCall.called
    /\ manifestCall.pc = "returned"
    /\ manifestCall.err = "none"
    /\ manifestCall.context = "DEBUG"

LoadedCdnLocation == ToStr(Get(config.m, "CDN_LOCATION"))

\* http://localhost:PORT, plus the component of the manifest's path in a
\* service project
LocalOrigin ==
    <<"http", ":", "/", "/", "localhost", ":">> \o ToStr(Get(config.m, "PORT"))
    \o (IF Get(config.m, "IS_SERVICE") = BoolV(TRUE)
        THEN <<"/">> \o firstSegment(manifestCall.configPath)
        ELSE <<>>)

\* C13 as stated: in DEBUG context, a URL field that begins with CDN_LOCATION
\* is returned with that prefix replaced by the local origin (and what follows
\* the prefix evaluated, if it is a template); a URL field that does not begin
\* with CDN_LOCATION and holds no template marker is returned unchanged.
C13_PrefixRewritten ==
    DebugManifestReturned
    => \A f \in RewritableFields :
        LET original == manifestFile.m[f].s
            rest == SubSeq(original, Len(LoadedCdnLocation) + 1, Len(original))
        IN  /\ (BeginsWith(original, LoadedCdnLocation) /\ ~HasMarker(rest))
               => manifestCall.doc[f] = Arg(LocalOrigin \o rest)
            /\ (BeginsWith(original, LoadedCdnLocation) /\ HasMarker(rest))
               => BeginsWith(manifestCall.doc[f].s, LocalOrigin)
            /\ (~BeginsWith(original, LoadedCdnLocation) /\ ~HasMarker(original))
               => manifestCall.doc[f] = manifestFile.m[f]

\* the field with the first occurrence of CDN_LOCATION, wherever it is,
\* replaced by the local origin
FirstOccurrenceLocal(original) ==
    IF indexOf(original, LoadedCdnLocation) < 0 THEN original
    ELSE SubSeq(original, 1, indexOf(original, LoadedCdnLocation))
         \o LocalOrigin
         \o SubSeq(original, indexOf(original, LoadedCdnLocation) + Len(LoadedCdnLocation) + 1,
                   Len(original))

\* C13, amended: in DEBUG context, every URL field is returned with the first
\* occurrence of CDN_LOCATION in it, at its start or anywhere else, replaced by
\* the local origin, and then evaluated as a URL template if a template marker
\* is left; a field that holds neither CDN_LOCATION nor a marker is returned
\* unchanged, and so is a field that is absent or empty.
C13_FirstOccurrenceRewritten ==
    DebugManifestReturned
    => /\ \A f \in RewritableFields :
            /\ ~HasMarker(FirstOccurrenceLocal(manifestFile.m[f].s))
               => manifestCall.doc[f] = Arg(FirstOccurrenceLocal(manifestFile.m[f].s))
            /\ HasMarker(FirstOccurrenceLocal(manifestFile.m[f].s))
               => manifestCall.doc[f] =
                     Arg(EvaluatedToken(FirstOccurrenceLocal(manifestFile.m[f].s)))
            /\ (indexOf(manifestFile.m[f].s, LoadedCdnLocation) < 0
                /\ ~HasMarker(manifestFile.m[f].s))
               => manifestCall.doc[f] = manifestFile.m[f]
       /\ \A f \in UrlFields \ RewritableFields : manifestCall.doc[f] = manifestFile.m[f]

\* a manifest has been returned in which an icon that holds CDN_LOCATION after
\* its start was rewritten there
C13_Witness ==
    /\ DebugManifestReturned
    /\ \E f \in RewritableFields :
        /\ indexOf(manifestFile.m[f].s, LoadedCdnLocation) > 0
        /\ manifestCall.doc[f] # manifestFile.m[f]
        /\ manifestCall.doc[f] = Arg(FirstOccurrenceLocal(manifestFile.m[f].s))

\* the manifest on disk declares the project's own service
DeclaresOwnService ==
    /\ manifestFile.kind = "json"
    /\ \E i \in 1..Len(manifestFile.m.services.list) :
          StrV(manifestFile.m.services.list[i].name) = Get(config.m, "NAME")

\* a declaration of another service is in the manifest on disk
DeclaresOtherService ==
    \E i \in 1..Len(manifestFile.m.services.list) :
        StrV(manifestFile.m.services.list[i].name) # Get(config.m, "NAME")

\* C14: in asar mode on an injectable project, a manifest that declares the
\* project's own service is returned with no service declaration named NAME,
\* with `${NAME}Api` = true in startup_app, and with no services list at all
\* when no other declaration remains: an empty list is never returned.
C14_ServiceInjected ==
    (/\ manifestCall.fn = "getManifest"
     /\ manifestCall.pc = "returned"
     /\ manifestCall.err = "none"
     /\ args.asar
     /\ Get(config.m, "RUNTIME_INJECTABLE") = BoolV(TRUE)
     /\ DeclaresOwnService)
    => (/\ \A i \in 1..Len(manifestCall.doc.services.list) :
              StrV(manifestCall.doc.services.list[i].name) # Get(config.m, "NAME")
        /\ Get(manifestCall.doc.app, ToStr(Get(config.m, "NAME")) \o <<"Api">>) = BoolV(TRUE)
        /\ manifestCall.doc.services.given => manifestCall.doc.services.list # <<>>
        /\ ~DeclaresOtherService => ~manifestCall.doc.services.given)

\* C15: a getManifest call with asar = true in a project whose configuration
\* does not set RUNTIME_INJECTABLE fails with an error, returns no manifest,
\* and has not called resolveRuntimeVersion's adapter connection: it is never
\* found waiting for the runtime, and it ends in an error with no connection made.
C15_AsarNeedsInjectable ==
    (/\ manifestCall.fn = "getManifest"
     /\ args.asar
     /\ ~(config.set /\ Truthy(Get(config.m, "RUNTIME_INJECTABLE"))))
    => (/\ manifestCall.pc = "returned"
        /\ manifestCall.err # "none"
        /\ ~manifestCall.resolve.contacted)

\* the manifest file cannot be loaded as JSON, or holds no startup_app block
NotAnAppManifest == manifestFile.kind # "json" \/ ~manifestFile.m.startup_app

\* the getProjectConfig() call that opens getManifest returned
ConfigReturned(c) == c.err \notin ConfigErrors

C17_NextOrResponse ==
    request.handled
    => (/\ \/ (manifestCall.err # "none" /\ request.nextCalls = 1 /\ request.responses = 0)
           \/ (manifestCall.err = "none" /\ request.nextCalls = 0 /\ request.responses = 1)
        /\ ~request.escaped)

\* the second request, for a file that is no app manifest, fell through to
\* next()
C17_Witness ==
    /\ request.handled
    /\ nManifests = 2
    /\ manifestCall.err = "NotAppManifest"
    /\ request.nextCalls = 1
    /\ request.responses = 0

\* ------------------------------------------------------------------------
\* Properties of the URL templater

\* the keys a template refers to
ReferencedKeys(s) == {s[i + 1] : i \in {j \in 1..(Len(s) - 1) : s[j] = "${"}}

\* the template with every ${KEY} replaced by the value of KEY in params
RECURSIVE Substituted(_, _)
Substituted(s, params) ==
    IF Len(s) = 0 THEN <<>>
    ELSE IF s[1] = "${" /\ Len(s) >= 3
    THEN ToStr(Get(params, s[2])) \o Substituted(SubSeq(s, 4, Len(s)), params)
    ELSE <<s[1]>> \o Substituted(Tail(s), params)

WithoutOneSlash(s) ==
    IF Len(s) > 0 /\ s[Len(s)] = "/" THEN SubSeq(s, 1, Len(s) - 1) ELSE s

\* C18: replaceUrlParams returns a string with no '${' as it is, trailing
\* slash included; for a well-formed template whose keys the loaded
\* configuration has, it returns the template with each key replaced by its
\* current value (that of overrideArgs, where it sets the key) and one
\* trailing slash removed from the result.
C18_IdentityOrSubstituted ==
    urlCall.called
    => /\ ~HasMarker(urlCall.urlTemplate)
          => (urlCall.err = "none" /\ urlCall.value = urlCall.urlTemplate)
       /\ (/\ HasMarker(urlCall.urlTemplate)
           /\ templateCompiles(urlCall.urlTemplate)
           /\ ConfigReturned(urlCall)
           /\ \A key \in ReferencedKeys(urlCall.urlTemplate) : Has(config.m, key))
          => (/\ urlCall.err = "none"
              /\ urlCall.value =
                    WithoutOneSlash(Substituted(urlCall.urlTemplate,
                                                Spread(config.m, urlCall.overrideArgs))))

\* a template that ends with two slashes has come back with the port in it
\* and one slash left
C18_Witness ==
    /\ urlCall.called
    /\ urlCall.err = "none"
    /\ urlCall.urlTemplate = <<"http", ":", "/", "/", "localhost", ":", "${", "PORT", "}", "/", "/">>
    /\ urlCall.value = <<"http", ":", "/", "/", "localhost", ":", "9", "0", "0", "0", "/">>

\* C19: whatever calls came before, a replaceUrlParams call returns the value,
\* or fails with the error, that the same call gives with an empty
\* templateCache.
C19_CacheTransparent ==
    urlCall.called
    => (urlCall.err = urlCall.uncachedErr /\ urlCall.value = urlCall.uncachedValue)

\* ------------------------------------------------------------------------
\* Properties of the environment overrides

\* the configuration as the files give it, before the environment is applied
FileConfig ==
    LET isService == existsSync(FileNamed(disk.service))
        file == FileNamed(IF isService THEN disk.service ELSE disk.project)
        userFile == FileNamed(IF isService THEN disk.userService ELSE disk.userProject)
    IN  Put(IF existsSync(userFile) THEN Spread(file.m, userFile.m) ELSE file.m,
            "VERSION", StrV(PACKAGE_VERSION))

\* a first getProjectConfig call has returned the configuration
FreshLoad == load.called /\ load.err = "none" /\ ~load.memoBefore.set /\ nEdits = 0

\* the keys that the environment overrides
OverriddenKeys == {key \in {env[i].k : i \in 1..Len(env)} : Has(FileConfig, key)}

TrueOrFalse(input) == toLowerCase(input) \in {<<"true">>, <<"false">>}

\* the value a string of the environment has in the type of the existing
\* value, if it has one
CoercibleTo(input, existing) ==
    CASE existing.t = "string" -> TRUE
      [] existing.t = "number" -> Len(input) > 0 /\ IsDigit(input[1])
      [] existing.t = "boolean" -> TrueOrFalse(input)
      [] OTHER -> jsonParses(input) /\ jsonParse(input).t = existing.t

CoercedTo(input, existing) ==
    CASE existing.t = "string" -> StrV(input)
      [] existing.t = "number" -> NumV(DigitsToNum(SubSeq(input, 1, LeadingDigits(input))))
      [] existing.t = "boolean" -> BoolV(toLowerCase(input) = <<"true">>)
      [] OTHER -> jsonParse(input)

\* C20 as stated: every key that the environment overrides gets the
\* environment's value coerced to the type of the existing value, a boolean
\* for 'true' or 'false' in any letter case, and keeps the existing value
\* when the environment's value cannot be coerced to that type.
C20_CoercedOrKept ==
    FreshLoad
    => \A key \in OverriddenKeys :
        LET input == Get(env, key).s
            existing == Get(FileConfig, key)
        IN  Get(config.m, key) =
                (IF CoercibleTo(input, existing) THEN CoercedTo(input, existing)
                 ELSE existing)

\* C20, amended: the values 'null' and 'undefined' of the environment make the
\* key null or undefined whatever the type of the existing value; any other
\* value is coerced to the type of an existing string, number or boolean
\* ('true' or 'false' in any letter case yield the boolean, never the string)
\* and the existing value is kept when that fails; for an existing null or
\* object the value is parsed as JSON, into whatever type the text has, and the
\* existing value is kept when it does not parse.
C20_SentinelCoercedOrKept ==
    FreshLoad
    => \A key \in OverriddenKeys :
        LET input == Get(env, key).s
            existing == Get(FileConfig, key)
        IN  Get(config.m, key) =
                (IF input = <<"null">> THEN NullV
                 ELSE IF input = <<"undefined">> THEN Undefined
                 ELSE IF existing.t \in {"string", "number", "boolean"}
                 THEN (IF CoercibleTo(input, existing) THEN CoercedTo(input, existing)
                       ELSE existing)
                 ELSE IF jsonParses(input) THEN jsonParse(input)
                 ELSE existing)

\* RUNTIME_INJECTABLE=False in the environment has made the key the boolean
\* false
C20_Witness ==
    /\ FreshLoad
    /\ Get(env, "RUNTIME_INJECTABLE") = StrV(<<"False">>)
    /\ Get(FileConfig, "RUNTIME_INJECTABLE") = BoolV(TRUE)
    /\ Get(config.m, "RUNTIME_INJECTABLE") = BoolV(FALSE)

\* ------------------------------------------------------------------------
\* Properties settled on the loader, the start command and the servers

\* C21: a configuration that getProjectConfig returns holds IS_SERVICE, and
\* its value is true exactly when services.config.json exists in the project
\* directory (the directory is the one every call has seen: it was not edited).
C21_IsServiceFromFile ==
    (load.called /\ load.err = "none" /\ nEdits = 0)
    => /\ Has(config.m, "IS_SERVICE")
       /\ Get(config.m, "IS_SERVICE") = BoolV(existsSync(FileNamed(disk.service)))

\* ------------------------------------------------------------------------
\* The start command at work

\* the arguments of a start command: --providerVersion and --asar
StartArguments ==
    {[providerVersion |-> pv, asar |-> a, runtime |-> <<>>] :
        pv \in {<<"local">>, TOKEN_SEMVER, TOKEN_INVALID}, a \in BOOLEAN}

InitStart ==
    /\ disk \in ProjectDisks
    /\ env = <<>>
    /\ FreshConfig
    /\ FreshUrl
    /\ FreshRuntime
    /\ FreshTimeout
    /\ args \in StartArguments
    /\ manifestFile = AbsentFile
    /\ FreshCalls

\* the process moves to p, with the module state that came with it
ProcessSteps(r) ==
    /\ proc' = r.p
    /\ config' = r.memo
    /\ urlCache' = r.urlCache
    /\ templateCache' = r.templateCache
    /\ UNCHANGED <<disk, env, nEdits, load, nLoads, urlCacheV0, call, nCalls, rtVars, toVars,
                   args, manifestFile, manifestCall, nManifests, request, urlCall, nUrlCalls,
                   machine, rtCall, nInstalls, prep, custom>>

ProcessMoves(p) == ProcessSteps(Stepped(p, config, urlCache, templateCache))

\* `start` is run with --demo or without, on Mac OS or elsewhere:
\* createServer() returns and the hook is called
StartCommand ==
    /\ proc.pc = "idle"
    /\ \E demo \in BOOLEAN, darwin \in BOOLEAN :
        ProcessMoves([proc EXCEPT !.pc = "hook", !.ran = <<"createServer", "hook">>,
                                  !.demo = demo, !.darwin = darwin])

\* the hook settles; createDefaultMiddleware is called
HookSettles ==
    /\ proc.pc = "hook"
    /\ \E ok \in BOOLEAN : ProcessMoves(awaited(proc, ok, "createDefaultMiddleware"))

\* createDefaultMiddleware settles; startServer is called
MiddlewareSettles ==
    /\ proc.pc = "createDefaultMiddleware"
    /\ \E ok \in BOOLEAN :
        \E p \in {awaited(proc, ok, "startServer")} :
            IF p.pc = "startServer"
            THEN ProcessSteps(startServer(p, getProjectConfig(config, disk, env), urlCache,
                                          templateCache))
            ELSE ProcessMoves(p)

\* the promise of startServer is fulfilled; prepareRuntime is called
ServerStarted ==
    /\ proc.pc = "startServer"
    /\ ProcessMoves(awaited(proc, TRUE, "prepareRuntime"))

\* prepareRuntime settles (without --asar it has nothing to do);
\* startApplication is called
PrepareSettles ==
    /\ proc.pc = "prepareRuntime"
    /\ \E ok \in (IF args.asar THEN BOOLEAN ELSE {TRUE}) :
        \E p \in {awaited(proc, ok, "startApplication")} :
            IF p.pc = "startApplication"
            THEN ProcessSteps(startApplication([p EXCEPT !.prepared = ok], args,
                                               getProjectConfig(config, disk, env),
                                               urlCache, templateCache, disk, env))
            ELSE ProcessMoves(p)

\* launch({manifestUrl}) settles: the provider runs, or the failure is logged
LaunchSettles ==
    /\ proc.app = "launchProvider"
    /\ ~proc.exited
    /\ \E ok \in BOOLEAN :
        ProcessSteps(launchDemo([proc EXCEPT !.providerLaunched = ok], args, config,
                                urlCache, templateCache, disk, env))

\* getManifest(exitManifestUrl) settles; connect({uuid, manifestUrl}) is called
ManifestFetched ==
    /\ proc.app = "manifest"
    /\ ~proc.exited
    /\ \E ok \in BOOLEAN :
        ProcessMoves([proc EXCEPT !.app = IF ok THEN "connect" ELSE "failed"])

\* connect(...) settles: the application is running and the 'closed' listener
\* is being added, or the failure is logged
ConnectSettles ==
    /\ proc.app = "connect"
    /\ ~proc.exited
    /\ \E ok \in BOOLEAN :
        ProcessMoves([proc EXCEPT !.app = IF ok THEN "addListener" ELSE "failed",
                                  !.launched = ok])

\* app.addListener('closed', ...) settles: the listener is registered, or the
\* failure is logged
AddListenerSettles ==
    /\ proc.app = "addListener"
    /\ ~proc.exited
    /\ \E ok \in BOOLEAN :
        ProcessMoves([proc EXCEPT !.app = IF ok THEN "watching" ELSE "failed",
                                  !.listener = ok])

\* the watched application closes: a registered listener calls process.exit(0)
WatchedCloses ==
    /\ proc.launched
    /\ ~proc.watchedClosed
    /\ ~proc.exited
    /\ ProcessMoves([proc EXCEPT !.watchedClosed = TRUE, !.exited = proc.listener])

NextStart ==
    \/ StartCommand
    \/ HookSettles
    \/ MiddlewareSettles
    \/ ServerStarted
    \/ PrepareSettles
    \/ LaunchSettles
    \/ ManifestFetched
    \/ ConnectSettles
    \/ AddListenerSettles
    \/ WatchedCloses

SpecStart == InitStart /\ [][NextStart]_vars

\* C22: the steps of the start command are called in the order of
\* START_STEPS, a step that failed is the last one called, and the provider or
\* the application is launched only when the server listens and prepareRuntime
\* has completed.
C22_StepsInSequence ==
    /\ Len(proc.ran) <= Len(START_STEPS)
    /\ proc.ran = SubSeq(START_STEPS, 1, Len(proc.ran))
    /\ \A i \in 1..Len(proc.ran) : proc.ran[i] \in proc.failed => i = Len(proc.ran)
    /\ (proc.app # "none" \/ proc.providerLaunched \/ proc.launched)
       => (proc.listening /\ proc.prepared)

\* the application runs, every step before it having completed
C22_Witness ==
    /\ proc.ran = START_STEPS
    /\ proc.launched
    /\ proc.failed = {}

\* C23: once the demo application runs, the process has exited with code 0
\* whenever the watched application has closed; it exits only after that
\* application closed, and never when started without --demo.
C23_ExitsWhenWatchedCloses ==
    /\ (proc.launched /\ proc.watchedClosed) => (proc.exited /\ proc.exitCode = 0)
    /\ proc.exited => proc.watchedClosed
    /\ ~proc.demo => ~proc.exited

\* ------------------------------------------------------------------------
\* installRuntime and isRuntimeInstalled called on their own

LOCALAPPDATA == <<"C:", "/", "Users", "/", "dev", "/", "AppData", "/", "Local">>
XDG_CONFIG_HOME == <<"/", "home", "/", "dev", "/", ".config">>

\* a version of three components whose first is the PORT of the configuration
MAPPED_SHORT == <<"9", "0", "0", "0", ".", "5", "5", ".", "1", "0">>

\* process.env: the variables that getInstallDirectory reads
InstallEnvs ==
    {<<>>,
     <<[k |-> "LOCALAPPDATA", v |-> StrV(LOCALAPPDATA)]>>,
     <<[k |-> "XDG_CONFIG_HOME", v |-> StrV(XDG_CONFIG_HOME)]>>}

Platforms == {"win32", "darwin", "linux"}

\* the runtime directories that may exist on a machine: those of a build and
\* of a custom runtime, under an install root that is an absolute path
RuntimeDirectories(platform, e) ==
    {getInstallDirectory(v, platform, e).dir : v \in {BUILD_A, MAPPED_A}}
        \cap {runtimePath(root, v) : root \in {LOCALAPPDATA, XDG_CONFIG_HOME},
                                     v \in {BUILD_A, MAPPED_A}}

InitInstall ==
    /\ disk \in ProjectDisks
    /\ env \in InstallEnvs
    /\ FreshConfig
    /\ FreshUrl
    /\ FreshRuntime
    /\ FreshTimeout
    /\ args = DefaultArgs
    /\ manifestFile = AbsentFile
    /\ manifestCall = NoManifestCall
    /\ nManifests = 0
    /\ request = NoRequest
    /\ urlCall = NoUrlCall
    /\ nUrlCalls = 0
    /\ proc = NoProcess
    /\ \E platform \in Platforms :
        \E dirs \in SUBSET RuntimeDirectories(platform, env) :
            machine = [platform |-> platform, dirs |-> dirs, asars |-> {}]
    /\ rtCall = NoRtCall
    /\ nInstalls = 0
    /\ prep = NoPrep
    /\ custom = NoCustom

\* versions handed to installRuntime and isRuntimeInstalled: build numbers, a
\* channel, versions that start with the PORT, and what mapRuntimeVersion
\* returned last
InstallVersions ==
    Builds \cup {<<"stable">>, MAPPED_A, MAPPED_SHORT}
           \cup {v \in {mapCall.value} : mapCall.called /\ mapCall.err = "none"}

\* installRuntime(version) is called, and runs up to its first await
InstallRuntime ==
    /\ nInstalls < MaxInstalls
    /\ rtCall.action.st # "pending" \/ ~rtCall.contacted
    /\ \E version \in InstallVersions :
        \E r \in {installRuntime(version, config, disk, env)} :
            /\ rtCall' = [NoRtCall EXCEPT
                             !.fn = "installRuntime", !.version = version,
                             !.action = r.action, !.contacted = r.contacted,
                             !.ofMapped = /\ mapCall.called
                                          /\ mapCall.err = "none"
                                          /\ version = mapCall.value,
                             !.PORT = IF r.memo.set /\ Has(r.memo.m, "PORT")
                                      THEN ToStr(Get(r.memo.m, "PORT")) ELSE <<>>]
            /\ config' = r.memo
            /\ adapterCalls' = adapterCalls + (IF r.contacted THEN 1 ELSE 0)
    /\ nInstalls' = nInstalls + 1
    /\ UNCHANGED <<disk, env, nEdits, load, nLoads, urlVars, releaseChannelMappings,
                   resolves, mapCall, nMaps, toVars, args, manifestFile, manifestCall,
                   nManifests, request, urlCall, nUrlCalls, proc, machine, prep, custom>>

\* the adapter connection of installRuntime reports a build number or fails
InstallConnects ==
    /\ rtCall.fn = "installRuntime"
    /\ rtCall.contacted
    /\ rtCall.action.st = "pending"
    /\ \E p \in InstallOutcomes : rtCall' = [rtCall EXCEPT !.action = p]
    /\ UNCHANGED <<cfgVars, urlVars, rtVars, toVars, args, manifestFile, manifestCall,
                   nManifests, request, urlCall, nUrlCalls, proc, machine, nInstalls, prep, custom>>

\* isRuntimeInstalled(version) is called
IsRuntimeInstalled ==
    /\ nInstalls < MaxInstalls
    /\ rtCall.action.st # "pending" \/ ~rtCall.contacted
    /\ \E version \in InstallVersions :
        \E r \in {isRuntimeInstalled(version, machine.platform, env, machine.dirs)} :
            rtCall' = [NoRtCall EXCEPT
                          !.fn = "isRuntimeInstalled", !.version = version,
                          !.action = Fulfilled(<<>>), !.err = r.err, !.value = r.value,
                          !.dirKnown =
                              getInstallDirectory(version, machine.platform, env).err = "none"]
    /\ nInstalls' = nInstalls + 1
    /\ UNCHANGED <<cfgVars, urlVars, rtVars, toVars, args, manifestFile, manifestCall,
                   nManifests, request, urlCall, nUrlCalls, proc, machine, prep, custom>>

NextInstall == MapRuntimeVersion \/ InstallRuntime \/ InstallConnects \/ IsRuntimeInstalled

SpecInstall == InitInstall /\ [][NextInstall]_vars

\* C24: installRuntime called with a version of four components whose first
\* is the configured PORT (such is every four-component version that
\* mapRuntimeVersion returned) returns a rejected promise and opens no adapter
\* connection; isRuntimeInstalled throws nothing, and returns false when the
\* install directory is not known.
C24_MappedInstallFails ==
    /\ (/\ rtCall.fn = "installRuntime"
        /\ Len(split(rtCall.version)) = 4
        /\ (rtCall.ofMapped \/ (rtCall.PORT # <<>> /\ split(rtCall.version)[1] = rtCall.PORT)))
       => (rtCall.action.st = "rejected" /\ ~rtCall.contacted)
    /\ rtCall.fn = "isRuntimeInstalled"
       => (rtCall.err = "none" /\ (~rtCall.dirKnown => ~rtCall.value))

\* installRuntime has refused the version that mapRuntimeVersion returned
C24_Witness ==
    /\ rtCall.fn = "installRuntime"
    /\ rtCall.ofMapped
    /\ rtCall.version = MAPPED_A
    /\ rtCall.action = Rejected("MappedVersion")

\* ------------------------------------------------------------------------
\* prepareRuntime at work

\* the arguments prepareRuntime reads: --asar and --runtime, which names
\* nothing, a channel, a build, or a version that starts with the PORT
PrepareArguments ==
    {[providerVersion |-> <<"local">>, asar |-> a, runtime |-> rt] :
        a \in BOOLEAN, rt \in {<<>>, <<"stable">>, BUILD_B, MAPPED_A}}

InitPrepare ==
    /\ disk \in ProjectDisks
    /\ env \in InstallEnvs
    /\ FreshConfig
    /\ FreshUrl
    /\ FreshRuntime
    /\ FreshTimeout
    /\ args \in PrepareArguments
    /\ manifestFile = AbsentFile
    /\ manifestCall = NoManifestCall
    /\ nManifests = 0
    /\ request = NoRequest
    /\ urlCall = NoUrlCall
    /\ nUrlCalls = 0
    /\ proc = NoProcess
    /\ \E platform \in Platforms :
        \E dirs \in SUBSET RuntimeDirectories(platform, env) :
            machine = [platform |-> platform, dirs |-> dirs, asars |-> {}]
    /\ rtCall = NoRtCall
    /\ nInstalls = 0
    /\ prep = NoPrep
    /\ custom = NoCustom

\* prepareRuntime moves on to r.p, with the state that came with it
PrepareSteps(r) ==
    /\ prep' = r.p
    /\ config' = r.memo
    /\ machine' = r.machine
    /\ args' = r.args
    /\ adapterCalls' = adapterCalls + (IF r.contacted THEN 1 ELSE 0)
    /\ UNCHANGED <<disk, env, nEdits, load, nLoads, urlVars, releaseChannelMappings,
                   resolves, mapCall, nMaps, toVars, manifestFile, manifestCall, nManifests,
                   request, urlCall, nUrlCalls, proc, rtCall, nInstalls, custom>>

\* prepareRuntime(args) is called
PrepareRuntime ==
    /\ prep.pc = "idle"
    /\ \E write \in BOOLEAN :
        PrepareSteps(prepareRuntime(prep, write, getProjectConfig(config, disk, env),
                                    machine, args))

\* `npm run build` or `npm run asar` ends
ShellSettles ==
    /\ prep.pc \in {"build", "asar"}
    /\ \E ok \in BOOLEAN :
        IF ~ok
        THEN PrepareSteps(Prepared(failPrep(prep, "ShellError"), config, machine, args, FALSE))
        ELSE IF prep.pc = "build"
        THEN PrepareSteps(Prepared([prep EXCEPT !.pc = "asar"], config, machine, args, FALSE))
        ELSE PrepareSteps(afterAsar(prep, config, machine, args, disk, env))

\* the awaited installRuntime(runtime) settles: the adapter reports the build
\* it installed, or fails; a channel's build is written back to args.runtime
PrepareInstallSettles ==
    /\ prep.pc = "install"
    /\ \E p \in InstallOutcomes :
        IF p.st = "rejected"
        THEN PrepareSteps(Prepared(failPrep(prep, p.v[1]), config, machine, args, FALSE))
        ELSE PrepareSteps(afterInstall(prep, p.v, config, installedBy(machine, p.v, env),
                                       IF prep.isChannel THEN [args EXCEPT !.runtime = p.v]
                                       ELSE args,
                                       disk, env))

\* the awaited fs.copy(src, dest) settles: dest is a copy of src, or the copy
\* failed (as it must when src does not exist)
CopySettles ==
    /\ prep.pc = "copy"
    /\ \E ok \in (IF prep.src \in machine.dirs THEN BOOLEAN ELSE {FALSE}) :
        IF ~ok
        THEN PrepareSteps(Prepared(failPrep(prep, "CopyError"), config, machine, args, FALSE))
        ELSE PrepareSteps(copyAsar(prep, config,
                                   [machine EXCEPT !.dirs = @ \cup {prep.dest}], args, env))

NextPrepare == PrepareRuntime \/ ShellSettles \/ PrepareInstallSettles \/ CopySettles

SpecPrepare == InitPrepare /\ [][NextPrepare]_vars

\* C25: the ASAR is only ever copied into the install directory of the custom
\* runtime, that directory exists and is not the install directory of the
\* runtime prepareRuntime worked from, and without --asar prepareRuntime
\* changes nothing on the machine.
C25_OriginalUntouched ==
    /\ \A dir \in machine.asars :
        /\ dir = getInstallDirectory(prep.customRuntime, machine.platform, env).dir
        /\ dir # getInstallDirectory(prep.runtimeVersion, machine.platform, env).dir
        /\ dir \in machine.dirs
    /\ (prep.pc # "idle" /\ ~args.asar)
       => (machine.asars = {} /\ machine.dirs = prep.dirsAtCall)

\* C26: without --asar, a manifest that getManifest (either version) returns
\* holds the --runtime override as its runtime.version when one was given, as
\* given and with channel names unresolved, and the runtime.version of the
\* file otherwise; runtime.arguments and licenseKey are those of the file.
C26_RuntimeVersionOverride ==
    (/\ manifestCall.called
     /\ manifestCall.pc = "returned"
     /\ manifestCall.err = "none"
     /\ ~args.asar)
    => /\ manifestCall.doc.runtimeVersion =
            IF args.runtime # <<>> THEN args.runtime ELSE manifestFile.m.runtimeVersion
       /\ manifestCall.doc.runtimeArguments = manifestFile.m.runtimeArguments
       /\ manifestCall.doc.licenseKey = manifestFile.m.licenseKey

\* a manifest whose file names a build is returned with the channel name given
\* as --runtime
C26_Witness ==
    /\ manifestCall.called
    /\ manifestCall.pc = "returned"
    /\ manifestCall.err = "none"
    /\ ~args.asar
    /\ args.runtime = <<"stable">>
    /\ manifestFile.m.runtimeVersion = BUILD_A
    /\ manifestCall.doc.runtimeVersion = <<"stable">>

\* C27: a manifest served for a path that is not under provider/ has the
\* autoShow that getManifest returned.
C27_AutoShowOnlyForProvider ==
    (/\ request.handled
     /\ request.responses = 1
     /\ firstSegment(manifestCall.configPath) # <<"provider">>)
    => request.body.autoShow = manifestCall.doc.autoShow

\* ------------------------------------------------------------------------
\* Properties of a manifest whose provider version is not requested

\* a getManifest call of either version has returned, in a project whose
\* configuration was loaded whole (IS_SERVICE is the last key getProjectConfig
\* sets), with providerVersion 'default' and asar off, on a manifest that
\* declares the project's own service
DefaultProviderReturned ==
    /\ manifestCall.called
    /\ manifestCall.fn \in {"getManifest", "getManifestV0"}
    /\ manifestCall.pc = "returned"
    /\ ConfigReturned(manifestCall)
    /\ Has(config.m, "IS_SERVICE")
    /\ args.providerVersion = <<"default">>
    /\ ~args.asar
    /\ DeclaresOwnService
    /\ manifestFile.m.startup_app

\* C28: with providerVersion 'default' and asar off, a getManifest call of
\* either version on a manifest that declares the project's own service
\* succeeds, and the manifestUrl of that declaration in the returned manifest
\* is the one of the file.
C28_DefaultLeavesManifestUrl ==
    DefaultProviderReturned
    => /\ manifestCall.err = "none"
       /\ Len(manifestCall.doc.services.list) = Len(manifestFile.m.services.list)
       /\ \A i \in 1..Len(manifestFile.m.services.list) :
            StrV(manifestFile.m.services.list[i].name) = Get(config.m, "NAME")
            => manifestCall.doc.services.list[i].manifestUrl
                   = manifestFile.m.services.list[i].manifestUrl

\* ------------------------------------------------------------------------
\* Properties of the resolvers' caches

\* the cache of the resolver that made the last call
CacheOf(fn) == IF fn = "manifest" THEN urlCache ELSE urlCacheV0

\* no entry of the cache uc holds a '?': no token and no configuration value
\* of the calls holds one, so a '?' could only come from a manifestUrl
HoldsNoQuery(uc) ==
    \A t \in DOMAIN uc : t \in VersionTokens /\ indexOf(uc[t], <<"?">>) < 0

\* C29: the caches of both resolvers are keyed by the tokens the calls were
\* given and hold no query string of a manifestUrl; a call with no manifestUrl
\* that returns, returns a URL with no query string, and on a cache hit the
\* cached URL itself, whatever manifestUrl the calls before it were given.
C29_CacheHoldsNoQuery ==
    /\ HoldsNoQuery(urlCache)
    /\ HoldsNoQuery(urlCacheV0)
    /\ (call.fn # "none" /\ call.err = "none" /\ ~call.manifestUrl.given)
       => /\ indexOf(call.value, <<"?">>) < 0
          /\ call.cacheHit => call.value = CacheOf(call.fn)[call.version]

\* a call with no manifestUrl has returned the bare URL from the cache, right
\* after a call with the same token that was given a query string and
\* returned it
C29_Witness ==
    /\ call.fn \in {"manifest", "getProviderUrl"}
    /\ call.afterQuery
    /\ call.err = "none"
    /\ call.cacheHit
    /\ ~call.manifestUrl.given
    /\ call.version \in {<<"stable">>, TOKEN_SEMVER}
    /\ call.value = CacheOf(call.fn)[call.version]
    /\ indexOf(call.value, <<"?">>) < 0

\* ------------------------------------------------------------------------
\* The /manifest route at work

\* the query strings of the requests: useService, provider and config, each
\* absent or given
ManifestQueries ==
    {[useService |-> u, provider |-> p, config |-> c] :
        u \in {NoArg, Arg(<<"false">>)},
        p \in {NoArg, Arg(<<"default">>), Arg(TOKEN_SEMVER), Arg(TOKEN_INVALID)},
        c \in {NoArg, Arg(<<"{", "}">>), Arg(<<"{", "bad">>)}}

\* a debug server about to create its middleware, in a project directory with
\* some manifest at res/demo/app.json
InitCustom ==
    /\ disk \in ProjectDisks
    /\ env = <<>>
    /\ FreshConfig
    /\ FreshUrl
    /\ FreshRuntime
    /\ FreshTimeout
    /\ args = DefaultArgs
    /\ manifestFile \in ManifestFiles
    /\ FreshCalls

\* createCustomManifestMiddleware() is called:
\* const {PORT, NAME} = getProjectConfig(); return async (req, res, next) => ...
CreateCustomManifestMiddleware ==
    /\ custom.pc = "idle"
    /\ \E cfg \in {getProjectConfig(config, disk, env)} :
        /\ config' = cfg.memo
        /\ custom' = [custom EXCEPT !.pc = IF cfg.err = "none" THEN "created" ELSE "failed"]
    /\ UNCHANGED <<disk, env, nEdits, load, nLoads, urlVars, rtVars, toVars, args,
                   manifestFile, manifestCall, nManifests, request, urlCall, nUrlCalls,
                   proc, machine, rtCall, nInstalls, prep>>

\* a request reaches the /manifest route: the handler calls getJsonFile and
\* awaits it
ManifestRoute ==
    /\ nManifests < MaxManifests
    /\ custom.pc \in {"created", "done"}
    /\ \E query \in ManifestQueries :
        custom' = [NoCustom EXCEPT !.pc = "awaiting", !.query = query]
    /\ nManifests' = nManifests + 1
    /\ UNCHANGED <<cfgVars, urlVars, rtVars, toVars, args, manifestFile, manifestCall,
                   request, urlCall, nUrlCalls, proc, machine, rtCall, nInstalls, prep>>

\* getJsonFile settles, and the handler runs to its end
DefaultConfigSettles ==
    /\ custom.pc = "awaiting"
    /\ \E u \in {getProviderUrlV0(providerOf(custom.query), NoArg, urlCacheV0, config, disk,
                                  env, templateCache)} :
        \E r \in {customManifestHandler(custom.query, getJsonFile(manifestFile), u, config,
                                        urlCacheV0, templateCache)} :
            /\ custom' = [custom EXCEPT !.pc = "done", !.result = r.result,
                                        !.service = r.service]
            /\ config' = r.memo
            /\ urlCacheV0' = r.urlCache
            /\ templateCache' = r.templateCache
    /\ UNCHANGED <<disk, env, nEdits, load, nLoads, urlCache, call, nCalls, rtVars, toVars,
                   args, manifestFile, manifestCall, nManifests, request, urlCall, nUrlCalls,
                   proc, machine, rtCall, nInstalls, prep>>

NextCustom ==
    \/ CreateCustomManifestMiddleware
    \/ ManifestRoute
    \/ DefaultConfigSettles
    \/ EditManifest

SpecCustom == InitCustom /\ [][NextCustom]_vars

\* C30: every request the /manifest route has handled ended in exactly one of
\* a response or a call of next(), and no error left the handler unanswered.
C30_ManifestRouteAnswers ==
    custom.pc = "done"
    => /\ custom.result.nextCalls + custom.result.responses = 1
       /\ ~custom.result.escaped

=============================================================================
